---- MODULE Spec2Model ----
(***************************************************************************)
(* A model of the analytics core of the G10 rates dashboard                *)
(* (src/modules/calculations.py): the par-to-zero bootstrap (bond and swap *)
(* variants), the two-tier curve alignment of the spread functions and the *)
(* interpolated asset-swap spread.                                         *)
(*                                                                         *)
(* Numbers.  Python floats are modelled by exact arithmetic:               *)
(*   - a rate, a coupon, a spread is a rational [n, d] with d > 0 in       *)
(*     lowest terms; [n |-> 0, d |-> 0] is NaN (a missing value);          *)
(*   - a discount factor and every quantity computed from one is a pair    *)
(*     [q, e] of rationals standing for q + e * 1e-12, so that the floor   *)
(*     1e-12 and the guard 1e-9 of the bootstrap are exact values;         *)
(*   - a maturity ("years") is an integer count of 1e-7 years.             *)
(***************************************************************************)
EXTENDS Integers, Sequences, FiniteSets, TLC

\* ------------------------------------------------------------------------
\* Bounds of the model
\* ------------------------------------------------------------------------
\* Longest input curve of a bootstrap call.
MaxPoints == 3

\* ------------------------------------------------------------------------
\* Exact rational arithmetic (the model of float arithmetic)
\* ------------------------------------------------------------------------
Abs(x) == IF x < 0 THEN -x ELSE x

Sgn(x) == IF x < 0 THEN -1 ELSE IF x = 0 THEN 0 ELSE 1

RECURSIVE GCD(_, _)
GCD(a, b) == IF b = 0 THEN a ELSE GCD(b, a % b)

\* n/d in lowest terms with a positive denominator (d # 0).
Rat(n, d) ==
    LET g == GCD(Abs(n), Abs(d))
        s == IF d < 0 THEN -1 ELSE 1
    IN  [n |-> s * (n \div g), d |-> s * (d \div g)]

RInt(k) == [n |-> k, d |-> 1]

NaN == [n |-> 0, d |-> 0]

IsNaN(r) == r.d = 0

\* Sums and products reduce before they multiply, to keep the integers small.
RAdd(a, b) ==
    LET g == GCD(a.d, b.d)
    IN  Rat(a.n * (b.d \div g) + b.n * (a.d \div g), (a.d \div g) * b.d)

RNeg(a) == [n |-> -a.n, d |-> a.d]

RSub(a, b) == RAdd(a, RNeg(b))

RMul(a, b) ==
    LET g == GCD(Abs(a.n), b.d)
        h == GCD(Abs(b.n), a.d)
    IN  Rat((a.n \div g) * (b.n \div h), (a.d \div h) * (b.d \div g))

\* a / b for b # 0 (the callers raise ZeroDivisionError before dividing by 0).
RDiv(a, b) == RMul(a, Rat(b.d, b.n))

RLt(a, b) == a.n * b.d < b.n * a.d

RLeq(a, b) == a.n * b.d <= b.n * a.d

\* ------------------------------------------------------------------------
\* Values q + e * 1e-12
\* ------------------------------------------------------------------------
Num(q, e) == [q |-> q, e |-> e]

NumOf(r) == Num(r, RInt(0))

\* k * 1e-12
Tiny(k) == Num(RInt(0), RInt(k))

NAdd(x, y) == Num(RAdd(x.q, y.q), RAdd(x.e, y.e))

NSub(x, y) == Num(RSub(x.q, y.q), RSub(x.e, y.e))

\* r * x and x / r for a rational r
NScale(r, x) == Num(RMul(r, x.q), RMul(r, x.e))

NDiv(x, r) == Num(RDiv(x.q, r), RDiv(x.e, r))

\* The sign of q + e * 1e-12.  With q = n/d # 0 the sign is that of q as soon
\* as |e| * 1e-12 < 1/d, which |e| <= 10^4 and d < 10^8 ensure, and so do
\* |e| <= 10^7 and d < 10^5; no value of the model leaves these ranges (the
\* CASE has no other arm on purpose).
NSign(x) ==
    CASE x.q.n = 0 -> Sgn(x.e.n)
      [] x.q.n # 0 /\ x.q.d < 10^8 /\ Abs(x.e.n) <= 10^4 * x.e.d -> Sgn(x.q.n)
      [] x.q.n # 0 /\ x.q.d < 10^5 /\ Abs(x.e.n) <= 10^7 * x.e.d -> Sgn(x.q.n)

NLt(x, y) == NSign(NSub(x, y)) < 0

NLeq(x, y) == NSign(NSub(x, y)) <= 0

\* Python's min(a, b) and max(a, b): the first argument unless the second is
\* strictly smaller (larger).
PyMin(a, b) == IF NLt(b, a) THEN b ELSE a

PyMax(a, b) == IF NLt(a, b) THEN b ELSE a

\* ------------------------------------------------------------------------
\* Tables (pandas DataFrames)
\* ------------------------------------------------------------------------
\* One year, in the unit of "years" (1e-7 year).
YearUnit == 10^7

\* A missing maturity (NaN in a "years" column).
NaNYears == -(2^30)

\* A tenor label: "<val>Y", "<val>M", another suffix, or a malformed body.
Label(body, val, unit) == [body |-> body, val |-> val, unit |-> unit]

NoLabel == Label("none", 0, "")

\* A table: its column names and its rows [tenor, years, rate], in order.
\* The rate column is "yield" for bonds and "rate" for swaps.
Table(cols, rows) == [cols |-> cols, rows |-> rows]

Row(tenor, years, rate) == [tenor |-> tenor, years |-> years, rate |-> rate]

\* round(): numpy rounds half to even.  v / u for u > 0.
RoundHalfEven(v, u) ==
    LET q == v \div u
        r == v - q * u
    IN  IF 2 * r < u THEN q
        ELSE IF 2 * r > u THEN q + 1
        ELSE IF q % 2 = 0 THEN q ELSE q + 1

\* _tenor_to_years: None -> None; "<n>Y" -> n; "<n>M" -> n / 12; any other
\* suffix -> None; float() of a malformed body raises ValueError.
tenor_to_years(t) ==
    IF t = NoLabel THEN [raised |-> FALSE, years |-> NaNYears]
    ELSE IF t.unit \notin {"Y", "M"} THEN [raised |-> FALSE, years |-> NaNYears]
    ELSE IF t.body # "num" THEN [raised |-> TRUE, years |-> NaNYears]
    ELSE IF t.unit = "Y" THEN [raised |-> FALSE, years |-> t.val * YearUnit]
    ELSE [raised |-> FALSE, years |-> RoundHalfEven(t.val * YearUnit, 12)]

\* DataFrame.sort_values("years") on rows whose years are not missing: a
\* stable insertion of each row behind the rows that are not larger.
RECURSIVE InsertByYears(_, _)
InsertByYears(s, r) ==
    IF s = <<>> THEN <<r>>
    ELSE IF s[Len(s)].years <= r.years THEN Append(s, r)
    ELSE Append(InsertByYears(SubSeq(s, 1, Len(s) - 1), r), s[Len(s)])

RECURSIVE SortByYears(_)
SortByYears(s) ==
    IF s = <<>> THEN <<>>
    ELSE InsertByYears(SortByYears(SubSeq(s, 1, Len(s) - 1)), s[Len(s)])

\* DataFrame.dropna(subset = ["years", <rate>])
IsUsable(r) == r.years # NaNYears /\ ~IsNaN(r.rate)

DropNa(s) == SelectSeq(s, IsUsable)

\* ------------------------------------------------------------------------
\* State
\* ------------------------------------------------------------------------
VARIABLES
    pc,       \* where the call stands: "call", "loop", "done", "raised"
    err,      \* the exception a raised call ends with ("" when none)
    ret,      \* the table a finished call returns
    \* -- bootstrap_zero_from_par / bootstrap_zero_from_par_swaps
    variant,  \* "bond" or "swap": which of the two functions is called
    df_in,    \* argument df_country / df_swaps
    freq,     \* argument freq
    comp,     \* argument comp
    d,        \* local d: the rows of the period grid, each [N, years, rate]
    DF,       \* local DF: period index -> discount factor
    rows,     \* local rows: the zero-curve rows emitted so far
    it,       \* how many rows of d the loop has consumed
    calls,    \* how many bootstrap calls the process has made so far
    \* -- the spread functions
    fn,        \* which function is called
    df_target, \* argument: the target curve (df_target, df_target_swaps, df_bonds)
    df_ref,    \* argument: the reference curve (df_ref, df_ref_swaps, df_swaps)
    tol,       \* argument nearest_tol_years / tol_years
    a,         \* local a: the cleaned target curve
    b,         \* local b: the cleaned reference curve
    m,         \* local m: the aligned rows, each with its reference rate
    tier,      \* which alignment produced m: "exact", "nearest", "interp"
    \* -- the hedging and analytics functions
    op,        \* which function is called
    args,      \* its arguments
    out        \* local out of hedge_proposal: the result built so far

bootVars == <<variant, df_in, freq, comp, d, DF, rows, it, calls>>

alignVars == <<fn, df_target, df_ref, tol, a, b, m, tier>>

deskVars == <<op, args, out>>

vars == <<pc, err, ret, variant, df_in, freq, comp, d, DF, rows, it, calls,
          fn, df_target, df_ref, tol, a, b, m, tier, op, args, out>>

\* The variables of the spread functions while a bootstrap runs, and those
\* of the bootstrap while a spread function runs.
AlignIdle ==
    /\ fn = "none"
    /\ df_target = [cols |-> {}, rows |-> <<>>]
    /\ df_ref = [cols |-> {}, rows |-> <<>>]
    /\ tol = 0
    /\ a = <<>>
    /\ b = <<>>
    /\ m = <<>>
    /\ tier = "none"

\* The variables of the hedging and analytics functions while another
\* function runs.
DeskIdle ==
    /\ op = "none"
    /\ args = <<>>
    /\ out = <<>>

BootIdle ==
    /\ variant = "none"
    /\ df_in = [cols |-> {}, rows |-> <<>>]
    /\ freq = 1
    /\ comp = "cont"
    /\ d = <<>>
    /\ DF = <<>>
    /\ rows = <<>>
    /\ it = 0
    /\ calls = 0

\* ------------------------------------------------------------------------
\* Zero-curve bootstrap
\* ------------------------------------------------------------------------
\* The literals of the bootstrap: the par price 100.0, the numerator guard
\* 1e-9 and the floor 1e-12 (both in units of 1e-12), the ceiling 1.0.
ParPrice == 100

GuardUnits == 1000

FloorUnits == 1

CeilDF == 1

\* d["N"] = (d["years"] * freq).round().astype(int)
PeriodIndex(years, f) == RoundHalfEven(years * f, YearUnit)

WithN(s, f) ==
    [i \in 1..Len(s) |->
        [N |-> PeriodIndex(s[i].years, f), years |-> s[i].years, rate |-> s[i].rate]]

\* d[d["N"] > 0]
HasPositiveN(r) == r.N > 0

\* Mutant of DropDuplicateN: keep = "last", the last row of each N is kept.
RECURSIVE DropDuplicateN_KeepLast(_)
DropDuplicateN_KeepLast(s) ==
    IF s = <<>> THEN <<>>
    ELSE LET tail == DropDuplicateN_KeepLast(SubSeq(s, 2, Len(s)))
         IN  IF \E i \in 1..Len(tail) : tail[i].N = s[1].N THEN tail
             ELSE <<s[1]>> \o tail

\* drop_duplicates(subset = ["N"]): the first row of each N is kept.
RECURSIVE DropDuplicateN(_)
DropDuplicateN(s) ==
    IF s = <<>> THEN <<>>
    ELSE LET head == DropDuplicateN(SubSeq(s, 1, Len(s) - 1))
             last == s[Len(s)]
         IN  IF \E i \in 1..Len(head) : head[i].N = last.N THEN head
             ELSE Append(head, last)

\* The period grid of a table: dropna, sort_values("years"), N, N > 0,
\* drop_duplicates.
PeriodGrid(s, f) ==
    DropDuplicateN(SelectSeq(WithN(SortByYears(DropNa(s)), f), HasPositiveN))

\* Mutant of SumDF: range(1, N - 1), the last period left out of the sum.
RECURSIVE SumDF_SkipLast(_, _)
SumDF_SkipLast(table, N) ==
    IF N <= 2 THEN NumOf(RInt(0))
    ELSE IF (N - 2) \in DOMAIN table
         THEN NAdd(SumDF_SkipLast(table, N - 1), table[N - 2])
         ELSE SumDF_SkipLast(table, N - 1)

\* sum of DF[k] for k in range(1, N) if k in DF
RECURSIVE SumDF(_, _)
SumDF(table, N) ==
    IF N <= 1 THEN NumOf(RInt(0))
    ELSE IF (N - 1) \in DOMAIN table
         THEN NAdd(SumDF(table, N - 1), table[N - 1])
         ELSE SumDF(table, N - 1)

\* Mutant of Clamp: the ceiling forgotten.
Clamp_NoCeiling(x) == PyMax(x, Tiny(FloorUnits))

\* DF_N = max(min(DF_N, 1.0), 1e-12)
Clamp(x) == PyMax(PyMin(x, NumOf(RInt(CeilDF))), Tiny(FloorUnits))

\* Mutant of Coupon: the annual coupon paid every period.
Coupon_Annual(rate, f) == rate

\* Bond: c = (y / freq) * 100 with y = yield / 100
Coupon(rate, f) == RDiv(rate, RInt(f))

\* Bond: coupon_sum, numer and denom of one point
CouponSum(table, N, c) == NScale(c, SumDF(table, N))

BondNumer(table, N, c) == NSub(NumOf(RInt(ParPrice)), CouponSum(table, N, c))

\* Mutant of BondDenom: the coupon left out of the denominator.
BondDenom_Flat(c) == RInt(ParPrice)

BondDenom(c) == RAdd(RInt(ParPrice), c)

\* Bond: whether numer / denom is evaluated with denom = 0.0
BondDivByZero(table, N, c) ==
    /\ ~NLeq(BondNumer(table, N, c), Tiny(GuardUnits))
    /\ BondDenom(c).n = 0

\* Bond: DF_N before the clamp (for denom # 0 where it is divided by)
BondRaw(table, N, c) ==
    IF NLeq(BondNumer(table, N, c), Tiny(GuardUnits)) THEN Tiny(FloorUnits)
    ELSE NDiv(BondNumer(table, N, c), BondDenom(c))

\* Mutant of BondDF: the clamp left out.
BondDF_Unclamped(table, N, c) == BondRaw(table, N, c)

BondDF(table, N, c) == Clamp(BondRaw(table, N, c))

\* Swap: S = rate / 100, alpha = 1 / freq, annuity, DF_N
SwapFix(rate) == RDiv(rate, RInt(100))

Alpha(f) == Rat(1, f)

Annuity(table, N, f) == NScale(Alpha(f), SumDF(table, N))

SwapDenom(S, f) == RAdd(RInt(1), RMul(S, Alpha(f)))

SwapDivByZero(S, f) == SwapDenom(S, f).n = 0

SwapRaw(table, N, S, f) ==
    NDiv(NSub(NumOf(RInt(1)), NScale(S, Annuity(table, N, f))), SwapDenom(S, f))

SwapDF(table, N, S, f) == Clamp(SwapRaw(table, N, S, f))

\* The zero yield of a row, in percent: 100 * (-ln(DF_N) / t) under "cont",
\* 100 * (DF_N ** (-1 / t) - 1) otherwise, kept as the term it is computed
\* from (logarithms and roots are not rational).
ZeroYield(c, dfN, t) == [comp |-> c, df |-> dfN, t |-> t]

\* Mutant of Store: the periods below N that the table lacks are filled
\* with v as well.
Store_Filling(table, N, v) ==
    [k \in DOMAIN table \cup 1..N |-> IF k \in DOMAIN table /\ k # N THEN table[k] ELSE v]

\* The sign of the zero yield of a row, t > 0: -ln(DF_N) / t and
\* DF_N ** (-1 / t) - 1 are both 0 at DF_N = 1, positive below 1 and
\* negative above.
ZeroYieldSign(z) == NSign(NSub(NumOf(RInt(1)), z.df))

\* DF with DF[N] = v
Store(table, N, v) ==
    [k \in DOMAIN table \cup {N} |-> IF k = N THEN v ELSE table[k]]

\* pd.DataFrame(rows).sort_values("years"): a table without rows has no
\* "years" column and sort_values raises KeyError.
RECURSIVE InsertByT(_, _)
InsertByT(s, r) ==
    IF s = <<>> THEN <<r>>
    ELSE IF RLeq(s[Len(s)].years, r.years) THEN Append(s, r)
    ELSE Append(InsertByT(SubSeq(s, 1, Len(s) - 1), r), s[Len(s)])

RECURSIVE SortRows(_)
SortRows(s) ==
    IF s = <<>> THEN <<>>
    ELSE InsertByT(SortRows(SubSeq(s, 1, Len(s) - 1)), s[Len(s)])

\* ---- the inputs of the bootstrap specification ----
SeqsUpTo(S, n) == UNION {[1..k -> S] : k \in 0..n}

\* Par rates, in percent.  Their size is chosen so that three points reach
\* every branch: a zero denominator (-100 at freq 1, -200 at freq 2), a
\* negative one, the ceiling, the guard on the numerator and inverted curves.
BootRates == {RInt(r) : r \in {-300, -200, -100, -50, 0, 50, 200, 300}}

\* (a) a ladder of maturities, one every half year or every year, with any
\*     rates: complete grids and grids with gaps, depending on freq.
LadderTables ==
    {Table({"years", "rate"},
           [i \in 1..Len(rs) |-> Row(NoLabel, i * step, rs[i])]) :
        rs \in SeqsUpTo(BootRates, MaxPoints), step \in {YearUnit \div 2, YearUnit}}

\* (b) rows in any order with missing values, maturities that round to
\*     period 0 or to the same period; the i-th row quotes 50 * i percent.
GridYears == {NaNYears, YearUnit \div 12, YearUnit, 3 * (YearUnit \div 2), 2 * YearUnit}

GridTables ==
    {Table({"years", "rate"},
           [i \in 1..Len(ys) |->
               Row(NoLabel, ys[i].y, IF ys[i].m THEN NaN ELSE RInt(50 * i))]) :
        ys \in SeqsUpTo([y : GridYears, m : BOOLEAN], MaxPoints)}

\* (c) tables that carry tenor labels and no "years" column, and tables
\*     that lack a required column.
BootLabels ==
    {Label("num", 1, "Y"), Label("num", 6, "M"), Label("num", 1, "M"),
     Label("num", 10, "W"), Label("bad", 0, "Y"), NoLabel}

LabelTables ==
    {Table({"tenor", "rate"},
           [i \in 1..Len(ls) |-> Row(ls[i], NaNYears, RInt(50 * i))]) :
        ls \in SeqsUpTo(BootLabels, 2)}
    \cup {Table({}, <<>>), Table({"years"}, <<>>), Table({"rate"}, <<>>),
          Table({"tenor"}, <<>>)}

BootTables == LadderTables \cup GridTables \cup LabelTables

InitBoot ==
    /\ pc = "call"
    /\ err = ""
    /\ ret = <<>>
    /\ variant \in {"bond", "swap"}
    /\ df_in \in BootTables
    /\ freq \in {1, 2}
    /\ comp \in {"cont", "annual"}
    /\ d = <<>>
    /\ DF = <<>>
    /\ rows = <<>>
    /\ it = 0
    /\ calls = 1
    /\ AlignIdle
    /\ DeskIdle

\* ---- the calls ----
Raise(e) ==
    /\ pc' = "raised"
    /\ err' = e
    /\ UNCHANGED <<alignVars, deskVars>>
    /\ UNCHANGED <<ret, calls, variant, df_in, freq, comp, d, DF, rows, it>>

\* Mutant of EnterLoop: DF = {} forgotten, the table of the previous call
\* is still bound when the loop starts.
EnterLoop_KeepDF(grid) ==
    /\ pc' = "loop"
    /\ d' = grid
    /\ rows' = <<>>
    /\ it' = 0
    /\ UNCHANGED <<alignVars, deskVars>>
    /\ UNCHANGED <<err, ret, calls, variant, df_in, freq, comp, DF>>

\* d = <the period grid>; DF = {}; rows = []; the loop starts
EnterLoop(grid) ==
    /\ pc' = "loop"
    /\ d' = grid
    /\ DF' = <<>>
    /\ rows' = <<>>
    /\ it' = 0
    /\ UNCHANGED <<alignVars, deskVars>>
    /\ UNCHANGED <<err, ret, calls, variant, df_in, freq, comp>>

\* d["years"] = d["tenor"].map(_tenor_to_years)
MapTenor(s) ==
    [i \in 1..Len(s) |-> Row(s[i].tenor, tenor_to_years(s[i].tenor).years, s[i].rate)]

\* bootstrap_zero_from_par, up to the loop
ParPrepare ==
    /\ pc = "call"
    /\ variant = "bond"
    /\ LET coerce == "years" \notin df_in.cols /\ "tenor" \in df_in.cols
           rs     == IF coerce THEN MapTenor(df_in.rows) ELSE df_in.rows
       IN  IF coerce /\ \E i \in 1..Len(df_in.rows) :
                            tenor_to_years(df_in.rows[i].tenor).raised
           THEN Raise("ValueError")
           ELSE IF ("years" \notin df_in.cols /\ ~coerce) \/ "rate" \notin df_in.cols
           THEN Raise("KeyError")
           ELSE EnterLoop(PeriodGrid(rs, freq))

\* bootstrap_zero_from_par, one turn of the loop
ParStep ==
    /\ pc = "loop"
    /\ variant = "bond"
    /\ it < Len(d)
    /\ LET N == d[it + 1].N
           c == Coupon(d[it + 1].rate, freq)
           t == Rat(N, freq)
       IN  IF BondDivByZero(DF, N, c)
           THEN Raise("ZeroDivisionError")
           ELSE /\ DF' = Store(DF, N, BondDF(DF, N, c))
                /\ rows' = Append(rows, [years |-> t,
                                         zero |-> ZeroYield(comp, BondDF(DF, N, c), t)])
                /\ it' = it + 1
                /\ UNCHANGED <<alignVars, deskVars>>
                /\ UNCHANGED <<pc, err, ret, calls, variant, df_in, freq, comp, d>>

\* the return of both functions
ReturnRows ==
    IF rows = <<>>
    THEN Raise("KeyError")
    ELSE /\ pc' = "done"
         /\ ret' = SortRows(rows)
         /\ UNCHANGED <<alignVars, deskVars>>
         /\ UNCHANGED <<err, calls, variant, df_in, freq, comp, d, DF, rows, it>>

ParFinish ==
    /\ pc = "loop"
    /\ variant = "bond"
    /\ it = Len(d)
    /\ ReturnRows

\* bootstrap_zero_from_par_swaps, up to the loop
SwapsPrepare ==
    /\ pc = "call"
    /\ variant = "swap"
    /\ IF df_in.rows = <<>> \/ df_in.cols = {}
       THEN /\ pc' = "done"
            /\ ret' = <<>>
            /\ UNCHANGED <<alignVars, deskVars>>
            /\ UNCHANGED <<err, calls, variant, df_in, freq, comp, d, DF, rows, it>>
       ELSE IF "years" \notin df_in.cols \/ "rate" \notin df_in.cols
       THEN Raise("KeyError")
       ELSE EnterLoop(PeriodGrid(df_in.rows, freq))

\* bootstrap_zero_from_par_swaps, one turn of the loop
SwapsStep ==
    /\ pc = "loop"
    /\ variant = "swap"
    /\ it < Len(d)
    /\ LET N == d[it + 1].N
           S == SwapFix(d[it + 1].rate)
           t == Rat(N, freq)
       IN  IF SwapDivByZero(S, freq)
           THEN Raise("ZeroDivisionError")
           ELSE /\ DF' = Store(DF, N, SwapDF(DF, N, S, freq))
                /\ rows' = Append(rows, [years |-> t,
                                         zero |-> ZeroYield(comp, SwapDF(DF, N, S, freq), t)])
                /\ it' = it + 1
                /\ UNCHANGED <<alignVars, deskVars>>
                /\ UNCHANGED <<pc, err, ret, calls, variant, df_in, freq, comp, d>>

SwapsFinish ==
    /\ pc = "loop"
    /\ variant = "swap"
    /\ it = Len(d)
    /\ ReturnRows

NextBoot ==
    \/ ParPrepare
    \/ ParStep
    \/ ParFinish
    \/ SwapsPrepare
    \/ SwapsStep
    \/ SwapsFinish

SpecBoot == InitBoot /\ [][NextBoot]_vars

\* ------------------------------------------------------------------------
\* Claims on the bootstrap (specification SpecBoot)
\* ------------------------------------------------------------------------
\* The row of the period grid with index N, and the discount-factor table as
\* it stood when that row was processed (the grid is ascending in N).
GridRow(N) == d[CHOOSE i \in 1..Len(d) : d[i].N = N]

Before(N) == [k \in {j \in DOMAIN DF : j < N} |-> DF[k]]

\* The rows processed so far form the complete grid 1, 2, 3, ...
CompleteSoFar == \A i \in 1..it : d[i].N = i

\* C1: every discount factor stored in the DF table, by either variant and
\* after every turn of the loop, is >= 1e-12 and <= 1.0.
C1_DFWithinBounds ==
    \A k \in DOMAIN DF :
        /\ NLeq(Tiny(1), DF[k])
        /\ NLeq(DF[k], NumOf(RInt(1)))

\* C1 witness: a finished pass over three points that stored both the floor
\* and the ceiling.
C1_Witness ==
    /\ pc = "done"
    /\ Cardinality(DOMAIN DF) = 3
    /\ \E k \in DOMAIN DF : DF[k] = Tiny(1)
    /\ \E k \in DOMAIN DF : DF[k] = NumOf(RInt(1))

\* C2 as stated: with strictly positive rates on a complete grid the discount
\* factors are strictly decreasing in N and each lies in (0, 1].
C2_Original ==
    (CompleteSoFar /\ \A i \in 1..it : d[i].rate.n > 0) =>
        /\ \A N \in DOMAIN DF :
               (N + 1) \in DOMAIN DF => NLt(DF[N + 1], DF[N])
        /\ \A N \in DOMAIN DF :
               NLt(NumOf(RInt(0)), DF[N]) /\ NLeq(DF[N], NumOf(RInt(1)))

\* C2 amended: with strictly positive rates that do not decrease with the
\* maturity, on a complete grid, DF[N+1] < DF[N] for every consecutive pair
\* unless both stand at the floor 1e-12, and each lies in (0, 1].
C2_Amended ==
    (/\ CompleteSoFar
     /\ \A i \in 1..it : d[i].rate.n > 0
     /\ \A i \in 1..it : i > 1 => RLeq(d[i - 1].rate, d[i].rate)) =>
        /\ \A N \in DOMAIN DF :
               (N + 1) \in DOMAIN DF =>
                   \/ NLt(DF[N + 1], DF[N])
                   \/ DF[N] = Tiny(1) /\ DF[N + 1] = Tiny(1)
        /\ \A N \in DOMAIN DF :
               NLt(NumOf(RInt(0)), DF[N]) /\ NLeq(DF[N], NumOf(RInt(1)))

\* C2 witness: three points of a complete grid with positive, rising rates,
\* strictly decreasing above the floor.
C2_Witness ==
    /\ pc = "done"
    /\ it = 3
    /\ CompleteSoFar
    /\ \A i \in 1..it : d[i].rate.n > 0
    /\ RLt(d[1].rate, d[2].rate) /\ RLeq(d[2].rate, d[3].rate)
    /\ NLt(DF[3], DF[2]) /\ NLt(DF[2], DF[1])

\* The price of the par bond of point N at the recovered discount factors:
\* c * (DF[1] + ... + DF[N]) + 100 * DF[N], c the periodic coupon of the point.
RECURSIVE SumUpTo(_)
SumUpTo(N) == IF N = 0 THEN NumOf(RInt(0)) ELSE NAdd(SumUpTo(N - 1), DF[N])

RePrice(N) ==
    NAdd(NScale(RDiv(GridRow(N).rate, RInt(freq)), SumUpTo(N)),
         NScale(RInt(100), DF[N]))

\* |x - 100| <= 1e-6
Within1e6Of100(x) ==
    /\ NLeq(NSub(x, NumOf(RInt(100))), Tiny(10^6))
    /\ NLeq(NSub(NumOf(RInt(100)), x), Tiny(10^6))

\* The discount factor of point N needed no safeguard: the numerator was
\* above 1e-9 and the quotient within [1e-12, 1].
StoredUnclamped(N) ==
    LET c == RDiv(GridRow(N).rate, RInt(freq))
        numer == NSub(NumOf(RInt(100)), NScale(c, SumDF(Before(N), N)))
    IN  /\ ~NLeq(numer, Tiny(1000))
        /\ NLeq(Tiny(1), NDiv(numer, RAdd(RInt(100), c)))
        /\ NLeq(NDiv(numer, RAdd(RInt(100), c)), NumOf(RInt(1)))

\* C3 as stated: on a complete grid every point of the bond bootstrap
\* re-prices to 100 within 1e-6.
C3_Original ==
    (variant = "bond" /\ CompleteSoFar) =>
        \A N \in DOMAIN DF : Within1e6Of100(RePrice(N))

\* C3 amended: on a complete grid every point of the bond bootstrap whose
\* discount factor was stored without the numerator guard or the clamp
\* acting re-prices to 100 within 1e-6.
C3_Amended ==
    (variant = "bond" /\ CompleteSoFar) =>
        \A N \in DOMAIN DF : StoredUnclamped(N) => Within1e6Of100(RePrice(N))

\* C3 witness: a finished three-point bond bootstrap on a complete grid, its
\* last point stored unclamped behind a clamped one.
C3_Witness ==
    /\ pc = "done"
    /\ variant = "bond"
    /\ it = 3
    /\ CompleteSoFar
    /\ StoredUnclamped(3)
    /\ ~StoredUnclamped(1)

\* The table has its columns and no usable point: no row at all, or only
\* rows with a missing year or rate or with a period index N <= 0.
NoUsablePoint ==
    /\ {"years", "rate"} \subseteq df_in.cols
    /\ \A i \in 1..Len(df_in.rows) :
           \/ df_in.rows[i].years = NaNYears
           \/ IsNaN(df_in.rows[i].rate)
           \/ PeriodIndex(df_in.rows[i].years, freq) <= 0

\* C4 as stated: with an empty curve or no usable point, both variants
\* return an empty table and do not raise.
C4_Original ==
    (NoUsablePoint /\ pc \in {"done", "raised"}) => (pc = "done" /\ ret = <<>>)

\* C5 as stated: no finite par rate makes the bootstrap raise; a zero
\* denominator ends in a clamped discount factor.
C5_Original == ~(pc = "raised" /\ err = "ZeroDivisionError")

\* The points of the input curve as the bootstrap reads them (years from
\* the tenor labels when only those are given), those with a maturity and a
\* rate, and the period indices N > 0 among them.
InputPoints ==
    IF "years" \notin df_in.cols /\ "tenor" \in df_in.cols
    THEN MapTenor(df_in.rows) ELSE df_in.rows

UsablePoints == {i \in 1..Len(InputPoints) : IsUsable(InputPoints[i])}

PointN(i) == PeriodIndex(InputPoints[i].years, freq)

PositiveN == {PointN(i) : i \in UsablePoints} \cap {n \in Int : n > 0}

\* The loop has its period grid (the call got past its preparation).
HasGrid == pc \in {"loop", "done"} /\ variant \in {"bond", "swap"}

\* C23: the period grid has one point per distinct N = round(years * freq)
\* > 0 of the usable input points, the one with the smallest years of its N,
\* in ascending order of N; and the table a call returns has exactly one
\* row per such N, at years = N / freq, strictly increasing.
C23_PeriodGrid ==
    HasGrid =>
        /\ {d[i].N : i \in 1..Len(d)} = PositiveN
        /\ Len(d) = Cardinality(PositiveN)
        /\ \A i \in 1..Len(d) :
              /\ i > 1 => d[i - 1].N < d[i].N
              /\ \E p \in UsablePoints :
                    /\ PointN(p) = d[i].N
                    /\ InputPoints[p].years = d[i].years
                    /\ InputPoints[p].rate = d[i].rate
              /\ \A p \in UsablePoints :
                    PointN(p) = d[i].N => d[i].years <= InputPoints[p].years
        /\ pc = "done" =>
              /\ Len(ret) = Cardinality(PositiveN)
              /\ {ret[i].years : i \in 1..Len(ret)} = {Rat(N, freq) : N \in PositiveN}
              /\ \A i \in 2..Len(ret) : RLt(ret[i - 1].years, ret[i].years)

\* C23 witness: a returned curve of two rows from three usable points, two
\* of them with different maturities in the same period, given in
\* descending order.
C23_Witness ==
    /\ pc = "done"
    /\ Len(ret) = 2
    /\ Cardinality(UsablePoints) = 3
    /\ \E p, q \in UsablePoints :
          /\ p < q
          /\ PointN(p) = PointN(q)
          /\ InputPoints[p].years > InputPoints[q].years

\* The sum of the discount factors of a table, whatever its keys.
RECURSIVE SumOfTable(_)
SumOfTable(table) ==
    IF DOMAIN table = {} THEN NumOf(RInt(0))
    ELSE LET k == CHOOSE j \in DOMAIN table : TRUE
         IN  NAdd(table[k], SumOfTable([j \in DOMAIN table \ {k} |-> table[j]]))

\* The discount factor of point N is the one its formula gives with the sum
\* of the factors stored below N, and of nothing else.
StoredFromTable(N) ==
    LET sum   == SumOfTable(Before(N))
        c     == RDiv(GridRow(N).rate, RInt(freq))
        numer == NSub(NumOf(RInt(100)), NScale(c, sum))
        S     == RDiv(GridRow(N).rate, RInt(100))
        fix   == RDiv(S, RInt(freq))
    IN  IF variant = "bond"
        THEN DF[N] = Clamp(IF NLeq(numer, Tiny(1000)) THEN Tiny(1)
                           ELSE NDiv(numer, RAdd(RInt(100), c)))
        ELSE DF[N] = Clamp(NDiv(NSub(NumOf(RInt(1)), NScale(fix, sum)),
                                RAdd(RInt(1), fix)))

\* C24: at every step of a pass and after it, the keys of the DF table are
\* exactly the period indices of the grid points processed so far, and the
\* factor of each point comes from the sum of the factors stored below it.
C24_OnlyGridPeriods ==
    /\ DOMAIN DF = {d[i].N : i \in 1..it}
    /\ \A N \in DOMAIN DF : StoredFromTable(N)

\* C24 witness: a finished pass over a grid with a gap: a point whose
\* previous period is absent from the table, which has a factor below it
\* and whose own factor is neither the floor nor the ceiling.
C24_Witness ==
    /\ pc = "done"
    /\ \E N \in DOMAIN DF :
          /\ (N - 1) \notin DOMAIN DF
          /\ \E k \in DOMAIN DF : k < N
          /\ NLt(DF[N], NumOf(RInt(1)))
          /\ NLt(Tiny(1), DF[N])

\* ------------------------------------------------------------------------
\* Curve normalisation
\* ------------------------------------------------------------------------
\* _coerce_years_from_tenor: "years" from the tenor labels when the column
\* is absent (a malformed label raises in _tenor_to_years), NaN without both.
coerce_years_from_tenor(t) ==
    IF "years" \in t.cols THEN [raised |-> FALSE, rows |-> t.rows]
    ELSE IF "tenor" \in t.cols
    THEN [raised |-> \E i \in 1..Len(t.rows) : tenor_to_years(t.rows[i].tenor).raised,
          rows |-> MapTenor(t.rows)]
    ELSE [raised |-> FALSE,
          rows |-> [i \in 1..Len(t.rows) |->
                       Row(t.rows[i].tenor, NaNYears, t.rows[i].rate)]]

\* _coerce_years_from_tenor_local: the label upper-cased, its "Y" removed,
\* read as a number; whatever is not a number then is NaN.
LocalYears(l) ==
    IF l.body = "num" /\ l.unit \in {"Y", ""} THEN l.val * YearUnit ELSE NaNYears

coerce_years_from_tenor_local(t) ==
    IF "years" \in t.cols THEN t.rows
    ELSE IF "tenor" \in t.cols
    THEN [i \in 1..Len(t.rows) |->
             Row(t.rows[i].tenor, LocalYears(t.rows[i].tenor), t.rows[i].rate)]
    ELSE [i \in 1..Len(t.rows) |-> Row(t.rows[i].tenor, NaNYears, t.rows[i].rate)]

\* groupby("years").agg({"years": "first", <rate>: "mean", "tenor": "first"})
\* on rows sorted by years; "first" is the first label that is not missing.
RECURSIVE SumRates(_)
SumRates(s) ==
    IF s = <<>> THEN RInt(0) ELSE RAdd(SumRates(SubSeq(s, 1, Len(s) - 1)), s[Len(s)].rate)

\* Mutant of MeanRate: the rate of the first row of the group.
MeanRate_First(s) == s[1].rate

MeanRate(s) == RDiv(SumRates(s), RInt(Len(s)))

FirstLabel(s) ==
    IF \A i \in 1..Len(s) : s[i].tenor = NoLabel THEN NoLabel
    ELSE s[CHOOSE i \in 1..Len(s) :
               /\ s[i].tenor # NoLabel
               /\ \A j \in 1..(i - 1) : s[j].tenor = NoLabel].tenor

RECURSIVE GroupByYears(_)
GroupByYears(s) ==
    IF s = <<>> THEN <<>>
    ELSE LET Same(r)  == r.years = s[1].years
             Other(r) == r.years # s[1].years
             grp      == SelectSeq(s, Same)
         IN  <<Row(FirstLabel(grp), s[1].years, MeanRate(grp))>>
                 \o GroupByYears(SelectSeq(s, Other))

\* _clean_curve
_clean_curve(t) ==
    IF t.rows = <<>> \/ t.cols = {} \/ "rate" \notin t.cols
    THEN [raised |-> FALSE, rows |-> <<>>]
    ELSE IF coerce_years_from_tenor(t).raised
    THEN [raised |-> TRUE, rows |-> <<>>]
    ELSE [raised |-> FALSE,
          rows |-> GroupByYears(SortByYears(DropNa(coerce_years_from_tenor(t).rows)))]

\* _clean_par_curve
_clean_par_curve(t) ==
    IF t.rows = <<>> \/ t.cols = {} \/ "rate" \notin t.cols THEN <<>>
    ELSE GroupByYears(SortByYears(DropNa(coerce_years_from_tenor_local(t))))

\* ------------------------------------------------------------------------
\* Alignment and spreads
\* ------------------------------------------------------------------------
\* The tolerance of _compute_asw, 0.15 year; the default of the other two.
DefaultTol == 1500000

\* A row of m: the target row, the reference rate aligned with it and
\* spread_bp = (rate - ref) * 100.
Aligned(r, ref) ==
    [tenor |-> r.tenor, years |-> r.years, rate |-> r.rate, ref |-> ref,
     spread_bp |-> RMul(RSub(r.rate, ref), RInt(100))]

\* The rows a spread function returns: tenor, years, spread_bp (and the
\* constant country label, left out).
Output(mm) ==
    [i \in 1..Len(mm) |->
        [tenor |-> mm[i].tenor, years |-> mm[i].years, spread_bp |-> mm[i].spread_bp]]

RefRateAt(cb, y) == cb[CHOOSE i \in 1..Len(cb) : cb[i].years = y].rate

\* a.merge(b[["years", "ref"]], on = "years", how = "inner"): equal years.
ExactJoin(ca, cb) ==
    LET Has(r) == \E i \in 1..Len(cb) : cb[i].years = r.years
        sel    == SelectSeq(ca, Has)
    IN  [i \in 1..Len(sel) |-> Aligned(sel[i], RefRateAt(cb, sel[i].years))]

Min(x, y) == IF x <= y THEN x ELSE y

Max(x, y) == IF x >= y THEN x ELSE y

\* Mutant of FallbackNeeded: the fallback only for an empty join.
FallbackNeeded_OnlyEmpty(ca, cb, mm) == mm = <<>>

\* m.empty or len(m) < max(2, int(0.3 * min(len(a), len(b))))
FallbackNeeded(ca, cb, mm) ==
    \/ mm = <<>>
    \/ Len(mm) < Max(2, (3 * Min(Len(ca), Len(cb))) \div 10)

\* Mutant of NearestIndex: the tolerance ignored.
NearestIndex_NoTolerance(cb, y, tolerance) ==
    LET ds == {Abs(cb[j].years - y) : j \in 1..Len(cb)}
    IN  CHOOSE i \in 1..Len(cb) : \A h \in ds : Abs(cb[i].years - y) <= h

\* pd.merge_asof(..., direction = "nearest", tolerance = tol): the index in
\* cb of the row aligned with maturity y, 0 when there is none.  The last
\* row not above y and the first row not below y are the candidates, each
\* only within the tolerance; the nearer wins, the lower one on a tie.
NearestIndex(cb, y, tolerance) ==
    LET back == {i \in 1..Len(cb) : cb[i].years <= y /\ y - cb[i].years <= tolerance}
        fwd  == {i \in 1..Len(cb) : cb[i].years >= y /\ cb[i].years - y <= tolerance}
        bi   == CHOOSE i \in back : \A j \in back : j <= i
        fi   == CHOOSE i \in fwd : \A j \in fwd : i <= j
    IN  IF back = {} /\ fwd = {} THEN 0
        ELSE IF fwd = {} THEN bi
        ELSE IF back = {} THEN fi
        ELSE IF y - cb[bi].years <= cb[fi].years - y THEN bi ELSE fi

\* Mutant of NearestJoin: allow_exact_matches = False, a reference row of
\* the same maturity is not a candidate.
NearestJoin_NoExact(ca, cb, tolerance) ==
    LET Has(r) == /\ NearestIndex(cb, r.years, tolerance) # 0
                  /\ cb[NearestIndex(cb, r.years, tolerance)].years # r.years
        sel    == SelectSeq(ca, Has)
    IN  [i \in 1..Len(sel) |->
            Aligned(sel[i], cb[NearestIndex(cb, sel[i].years, tolerance)].rate)]

\* merge_asof followed by dropna(subset = ["ref"])
NearestJoin(ca, cb, tolerance) ==
    LET Has(r) == NearestIndex(cb, r.years, tolerance) # 0
        sel    == SelectSeq(ca, Has)
    IN  [i \in 1..Len(sel) |->
            Aligned(sel[i], cb[NearestIndex(cb, sel[i].years, tolerance)].rate)]

\* Mutant of Interp: the quote at or below t, without interpolation.
Interp_Step(cb, t) ==
    IF t <= cb[1].years THEN cb[1].rate
    ELSE cb[CHOOSE j \in 1..Len(cb) :
                /\ cb[j].years <= t
                /\ \A k \in 1..Len(cb) : cb[k].years <= t => k <= j].rate

\* np.interp(t, xb, yb, left = yb[0], right = yb[-1]) on a curve cb with
\* strictly increasing years.
Interp(cb, t) ==
    IF t <= cb[1].years THEN cb[1].rate
    ELSE IF t >= cb[Len(cb)].years THEN cb[Len(cb)].rate
    ELSE LET i == CHOOSE j \in 1..(Len(cb) - 1) : cb[j].years <= t /\ t < cb[j + 1].years
         IN  RAdd(cb[i].rate,
                  RMul(RSub(cb[i + 1].rate, cb[i].rate),
                       Rat(t - cb[i].years, cb[i + 1].years - cb[i].years)))

\* Mutant of InterpJoin: no row for a bond outside the swap maturities.
InterpJoin_InsideOnly(ca, cb) ==
    LET Inside(r) == cb[1].years <= r.years /\ r.years <= cb[Len(cb)].years
        sel       == SelectSeq(ca, Inside)
    IN  [i \in 1..Len(sel) |-> Aligned(sel[i], Interp(cb, sel[i].years))]

InterpJoin(ca, cb) == [i \in 1..Len(ca) |-> Aligned(ca[i], Interp(cb, ca[i].years))]

\* round(6) of a maturity, in units of 1e-6 year
Round6(y) == RoundHalfEven(y, 10)

\* The key of the exact join of add_spread_vs_ref: the tenor label when
\* both tables have the column, else the maturity rounded to 1e-6.
JoinKey(r, byTenor) == IF byTenor THEN [label |-> r.tenor] ELSE [ky |-> Round6(r.years)]

\* DataFrame.merge(..., how = "inner") on that key: every target row, in
\* order, with every reference row of the same key, in order.
RECURSIVE MergeOn(_, _, _)
MergeOn(st, sr, byTenor) ==
    IF st = <<>> THEN <<>>
    ELSE LET last    == st[Len(st)]
             Same(r) == JoinKey(r, byTenor) = JoinKey(last, byTenor)
             hits    == SelectSeq(sr, Same)
         IN  MergeOn(SubSeq(st, 1, Len(st) - 1), sr, byTenor)
                 \o [i \in 1..Len(hits) |-> Aligned(last, hits[i].rate)]

\* ---- the calls ----
AlignRaise(e) ==
    /\ pc' = "raised"
    /\ err' = e
    /\ UNCHANGED <<ret, fn, df_target, df_ref, tol, a, b, m, tier>>
    /\ UNCHANGED <<bootVars, deskVars>>

\* return pd.DataFrame(columns = [...]): the early returns, before a and b
\* are both known to hold rows.
AlignReturnEmpty ==
    /\ pc' = "done"
    /\ ret' = <<>>
    /\ UNCHANGED <<err, fn, df_target, df_ref, tol, a, b, m, tier>>
    /\ UNCHANGED <<bootVars, deskVars>>

\* the exact join done, the fallback not yet decided
AlignJoined(ca, cb) ==
    /\ pc' = "joined"
    /\ a' = ca
    /\ b' = cb
    /\ m' = ExactJoin(ca, cb)
    /\ tier' = "exact"
    /\ UNCHANGED <<err, ret, fn, df_target, df_ref, tol>>
    /\ UNCHANGED <<bootVars, deskVars>>

\* the return of a function with its final m
AlignReturn(ca, cb, mm, t) ==
    /\ pc' = "done"
    /\ a' = ca
    /\ b' = cb
    /\ m' = mm
    /\ tier' = t
    /\ ret' = Output(SortByYears(mm))
    /\ UNCHANGED <<err, fn, df_target, df_ref, tol>>
    /\ UNCHANGED <<bootVars, deskVars>>

\* The second tier and the return, shared by the three joining functions:
\* merge_asof refuses a negative tolerance (MergeError).
FallbackAndReturn(tolerance) ==
    IF FallbackNeeded(a, b, m)
    THEN IF tolerance < 0 THEN AlignRaise("MergeError")
         ELSE AlignReturn(a, b, NearestJoin(a, b, tolerance), "nearest")
    ELSE AlignReturn(a, b, m, "exact")

\* add_spread_vs_ref_par, to the exact join
add_spread_vs_ref_par_merge ==
    /\ pc = "call"
    /\ fn = "add_spread_vs_ref_par"
    /\ IF "rate" \notin df_target.cols \/ "rate" \notin df_ref.cols
       THEN AlignReturnEmpty
       ELSE IF _clean_curve(df_target).raised \/ _clean_curve(df_ref).raised
       THEN AlignRaise("ValueError")
       ELSE IF _clean_curve(df_target).rows = <<>> \/ _clean_curve(df_ref).rows = <<>>
       THEN AlignReturnEmpty
       ELSE AlignJoined(_clean_curve(df_target).rows, _clean_curve(df_ref).rows)

\* add_spread_vs_ref_par, from the fallback to the return
add_spread_vs_ref_par_return ==
    /\ pc = "joined"
    /\ fn = "add_spread_vs_ref_par"
    /\ FallbackAndReturn(tol)

\* swap_spread_vs_ref, to the exact join
swap_spread_vs_ref_merge ==
    /\ pc = "call"
    /\ fn = "swap_spread_vs_ref"
    /\ IF _clean_par_curve(df_target) = <<>> \/ _clean_par_curve(df_ref) = <<>>
       THEN AlignReturnEmpty
       ELSE AlignJoined(_clean_par_curve(df_target), _clean_par_curve(df_ref))

\* swap_spread_vs_ref, from the fallback to the return
swap_spread_vs_ref_return ==
    /\ pc = "joined"
    /\ fn = "swap_spread_vs_ref"
    /\ FallbackAndReturn(tol)

\* _compute_asw: _prep_bonds and _prep_swaps (years from the label with its
\* "Y" removed, dropna, sort, groupby years)
_prep(t) ==
    IF "rate" \notin t.cols THEN <<>>
    ELSE GroupByYears(SortByYears(DropNa(coerce_years_from_tenor_local(t))))

\* _compute_asw, to the exact join
_compute_asw_merge ==
    /\ pc = "call"
    /\ fn = "_compute_asw"
    /\ IF _prep(df_target) = <<>> \/ _prep(df_ref) = <<>>
       THEN AlignReturnEmpty
       ELSE AlignJoined(_prep(df_target), _prep(df_ref))

\* _compute_asw, from the fallback to the return; m[["tenor", ...]] raises
\* KeyError when the bonds came without a tenor column.
_compute_asw_return ==
    /\ pc = "joined"
    /\ fn = "_compute_asw"
    /\ IF FallbackNeeded(a, b, m) /\ NearestJoin(a, b, DefaultTol) = <<>>
       THEN AlignReturn(a, b, <<>>, "nearest")
       ELSE IF "tenor" \notin df_target.cols
       THEN AlignRaise("KeyError")
       ELSE FallbackAndReturn(DefaultTol)

\* asw_spread
asw_spread ==
    /\ pc = "call"
    /\ fn = "asw_spread"
    /\ IF _clean_par_curve(df_target) = <<>> \/ Len(_clean_par_curve(df_ref)) < 2
       THEN AlignReturnEmpty
       ELSE AlignReturn(_clean_par_curve(df_target), _clean_par_curve(df_ref),
                        InterpJoin(_clean_par_curve(df_target),
                                   _clean_par_curve(df_ref)), "interp")

\* add_spread_vs_ref, the target and the reference rows of df_all given as
\* two tables.
add_spread_vs_ref ==
    /\ pc = "call"
    /\ fn = "add_spread_vs_ref"
    /\ LET Years(t) == IF "years" \notin t.cols /\ "tenor" \in t.cols
                       THEN MapTenor(t.rows) ELSE t.rows
           Bad(t)   == /\ "years" \notin t.cols
                       /\ "tenor" \in t.cols
                       /\ \E i \in 1..Len(t.rows) : tenor_to_years(t.rows[i].tenor).raised
           NoCol(t) == \/ "years" \notin t.cols /\ "tenor" \notin t.cols
                       \/ "rate" \notin t.cols
           byTenor  == "tenor" \in df_target.cols /\ "tenor" \in df_ref.cols
           mm       == MergeOn(DropNa(Years(df_target)), DropNa(Years(df_ref)), byTenor)
       IN  IF df_target.rows = <<>> \/ df_ref.rows = <<>>
           THEN AlignReturnEmpty
           ELSE IF Bad(df_target) \/ Bad(df_ref)
           THEN AlignRaise("ValueError")
           ELSE IF NoCol(df_target) \/ NoCol(df_ref)
           THEN AlignRaise("KeyError")
           ELSE IF mm = <<>>
           THEN AlignReturn(DropNa(Years(df_target)), DropNa(Years(df_ref)), <<>>, "exact")
           ELSE IF "tenor" \notin df_target.cols
           THEN AlignRaise("KeyError")
           ELSE AlignReturn(DropNa(Years(df_target)), DropNa(Years(df_ref)), mm, "exact")

\* ---- the inputs of the alignment specification ----
\* Longest curve of the ladder family.
MaxCurveLen == 10

\* The subsequence of s at the indices in S.
Pick(s, S) ==
    [i \in 1..Cardinality(S) |->
        s[CHOOSE x \in S : Cardinality({y \in S : y < x}) = i - 1]]

SubSeqs(s) == {Pick(s, S) : S \in SUBSET (1..Len(s))}

\* The rows without their labels: a table that has no tenor column.
Unlabelled(s) == [i \in 1..Len(s) |-> Row(NoLabel, s[i].years, s[i].rate)]

TableOf(s, withTenor) ==
    IF withTenor THEN Table({"tenor", "years", "rate"}, s)
    ELSE Table({"years", "rate"}, Unlabelled(s))

Y(n) == Label("num", n, "Y")

\* (a) target rows 10Y, 2Y, 5Y out of order, a 2Y quote 1e-7 year off, a
\*     second 2Y quote and a row without maturity; reference rows beside
\*     and on the target maturities.  Rates in percent.
TargetBase ==
    << Row(Y(10), 10 * YearUnit, Rat(45, 10)),
       Row(Y(2), 2 * YearUnit, Rat(30, 10)),
       Row(Y(5), 5 * YearUnit, Rat(40, 10)),
       Row(Y(2), 2 * YearUnit + 1, Rat(32, 10)),
       Row(Y(2), 2 * YearUnit, Rat(34, 10)),
       Row(Y(7), NaNYears, Rat(38, 10)) >>

RefBase ==
    << Row(Y(10), 99 * (YearUnit \div 10), Rat(25, 10)),
       Row(Y(2), 2 * YearUnit, Rat(10, 10)),
       Row(Y(2), 205 * (YearUnit \div 100), Rat(11, 10)),
       Row(Y(5), 51 * (YearUnit \div 10), Rat(20, 10)),
       Row(Y(10), 10 * YearUnit, Rat(26, 10)) >>

BasePairs ==
    {[t |-> TableOf(st, tt), r |-> TableOf(sr, tr)] :
        st \in SubSeqs(TargetBase), sr \in SubSeqs(RefBase),
        tt \in BOOLEAN, tr \in BOOLEAN}

\* (b) ladders: a target quoting 1Y .. la Y and a reference quoting lb
\*     maturities of which the first e are those of the target and the
\*     others stand off by 0.05 or 0.5 year.
TargetLadder(la) ==
    [i \in 1..la |-> Row(Y(i), i * YearUnit, Rat(30 + i, 10))]

RefLadder(lb, e, off) ==
    [i \in 1..lb |->
        Row(Y(i), IF i <= e THEN i * YearUnit ELSE i * YearUnit + off, Rat(10 + i, 10))]

LadderPairs ==
    {[t |-> TableOf(TargetLadder(la), TRUE), r |-> TableOf(RefLadder(lb, e, off), TRUE)] :
        la \in 0..MaxCurveLen, lb \in 0..MaxCurveLen, e \in 0..MaxCurveLen,
        off \in {YearUnit \div 20, YearUnit \div 2}}

AlignPairs == BasePairs \cup LadderPairs

\* The tolerances tried: 0, 0.02, 0.05 and 0.15 year.
Tolerances == {0, YearUnit \div 50, YearUnit \div 20, DefaultTol}

InitAlign ==
    /\ pc = "call"
    /\ err = ""
    /\ ret = <<>>
    /\ BootIdle
    /\ DeskIdle
    /\ \E p \in AlignPairs : df_target = p.t /\ df_ref = p.r
    /\ \/ fn \in {"add_spread_vs_ref_par", "swap_spread_vs_ref"} /\ tol \in Tolerances
       \/ fn \in {"_compute_asw", "asw_spread", "add_spread_vs_ref"} /\ tol = DefaultTol
    /\ a = <<>>
    /\ b = <<>>
    /\ m = <<>>
    /\ tier = "none"

NextAlign ==
    \/ add_spread_vs_ref_par_merge
    \/ add_spread_vs_ref_par_return
    \/ swap_spread_vs_ref_merge
    \/ swap_spread_vs_ref_return
    \/ _compute_asw_merge
    \/ _compute_asw_return
    \/ asw_spread
    \/ add_spread_vs_ref

SpecAlign == InitAlign /\ [][NextAlign]_vars

\* ------------------------------------------------------------------------
\* Claims on the alignment and the spreads (specification SpecAlign)
\* ------------------------------------------------------------------------
Joining == {"add_spread_vs_ref_par", "swap_spread_vs_ref", "_compute_asw"}

YearsOf(s) == {s[i].years : i \in 1..Len(s)}

YearsSeq(s) == [i \in 1..Len(s) |-> s[i].years]

\* The distance from maturity y to the nearest row of the reference b.
Gap(y) ==
    LET ds == {Abs(b[j].years - y) : j \in 1..Len(b)}
    IN  CHOOSE g \in ds : \A h \in ds : g <= h

\* C6: in the nearest-neighbour fallback of add_spread_vs_ref_par and
\* swap_spread_vs_ref a target row is kept if and only if its nearest
\* reference row is within the tolerance, and the reference rate it gets is
\* that of a nearest row; targets 2, 5, 10 against references 2.05, 5.1, 9.9
\* give three rows with tolerance 0.15 and none with tolerance 0.02.
C6_NearestWithinTolerance ==
    (/\ pc = "done"
     /\ fn \in {"add_spread_vs_ref_par", "swap_spread_vs_ref"}
     /\ tier = "nearest") =>
        /\ \A i \in 1..Len(a) : (a[i].years \in YearsOf(m)) <=> (Gap(a[i].years) <= tol)
        /\ \A i \in 1..Len(m) :
               \E j \in 1..Len(b) :
                   /\ Abs(b[j].years - m[i].years) = Gap(m[i].years)
                   /\ m[i].ref = b[j].rate
        /\ (/\ YearsSeq(a) = <<2 * YearUnit, 5 * YearUnit, 10 * YearUnit>>
            /\ YearsSeq(b) = <<20500000, 51000000, 99000000>>) =>
               /\ tol = 1500000 => Len(ret) = 3
               /\ tol = 200000 => Len(ret) = 0

\* C6 witness: the example, aligned by the fallback with tolerance 0.15.
C6_Witness ==
    /\ pc = "done"
    /\ fn = "add_spread_vs_ref_par"
    /\ tier = "nearest"
    /\ YearsSeq(a) = <<2 * YearUnit, 5 * YearUnit, 10 * YearUnit>>
    /\ YearsSeq(b) = <<20500000, 51000000, 99000000>>
    /\ tol = 1500000
    /\ Len(ret) = 3

\* The number of target maturities that the reference quotes too.
ExactMatches == Cardinality({i \in 1..Len(a) : a[i].years \in YearsOf(b)})

\* A joining function returned after aligning two curves that hold rows.
AlignedAndDone == pc = "done" /\ fn \in Joining /\ tier \in {"exact", "nearest"}

\* C7 as stated: the fallback is taken exactly when the exact join has no
\* row or fewer than max(2, 30% of the smaller curve's length) rows.
C7_Original ==
    AlignedAndDone =>
        ((tier = "nearest") <=>
            \/ ExactMatches = 0
            \/ 10 * ExactMatches < Max(20, 3 * Min(Len(a), Len(b))))

\* C7 amended: the fallback is taken exactly when the exact join has no row
\* or fewer than max(2, the integer part of 30% of the smaller curve's
\* length) rows.
C7_Amended ==
    AlignedAndDone =>
        ((tier = "nearest") <=>
            \/ ExactMatches = 0
            \/ ExactMatches < Max(2, (3 * Min(Len(a), Len(b))) \div 10))

\* C7 witness: two exact matches between curves of ten points, below the
\* threshold of three, so that the fallback ran.
C7_Witness ==
    /\ AlignedAndDone
    /\ Len(a) = 10
    /\ Len(b) = 10
    /\ ExactMatches = 2
    /\ tier = "nearest"

\* The exact-join tier has just run (its result is m).
ExactTierDone ==
    \/ pc = "joined" /\ fn \in Joining
    \/ pc = "done" /\ fn = "add_spread_vs_ref"

\* C8 as stated: the exact join matches every target row with a reference
\* row of the same maturity after rounding to 1e-6.
C8_Original ==
    ExactTierDone =>
        \A i \in 1..Len(a) :
            (\E j \in 1..Len(b) :
                 RoundHalfEven(a[i].years, 10) = RoundHalfEven(b[j].years, 10))
                => a[i].years \in YearsOf(m)

\* The valid maturities of a table: rows with a year and a rate.
ValidYears(t) ==
    {t.rows[i].years : i \in {j \in 1..Len(t.rows) :
        t.rows[j].years # NaNYears /\ ~IsNaN(t.rows[j].rate)}}

AswDone == pc = "done" /\ fn = "asw_spread"

OneRowPerBondMaturity ==
    /\ Len(ret) = Cardinality(ValidYears(df_target))
    /\ YearsOf(ret) = ValidYears(df_target)

\* C9 as stated: asw_spread returns one row for every distinct valid bond
\* maturity, whatever the maturities of the swap curve are, a single quote
\* included.
C9_Original == (AswDone /\ ValidYears(df_ref) # {}) => OneRowPerBondMaturity

\* C9 amended: asw_spread returns one row for every distinct valid bond
\* maturity whenever the swap curve has at least two distinct valid
\* maturities, and an empty table when it has fewer.
C9_Amended ==
    AswDone =>
        IF Cardinality(ValidYears(df_ref)) >= 2
        THEN OneRowPerBondMaturity
        ELSE ret = <<>>

\* C9 witness: three bond maturities, none of them quoted by the swaps.
C9_Witness ==
    /\ AswDone
    /\ Len(ret) = 3
    /\ ValidYears(df_target) \cap ValidYears(df_ref) = {}

\* C10: the reference rate of asw_spread at a bond maturity t is the rate of
\* the smallest swap maturity below it, of the largest above it, and between
\* two consecutive swap quotes (x0, y0), (x1, y1) the value on their chord:
\* (ref - y0) * (x1 - x0) = (y1 - y0) * (t - x0); spread_bp is
\* (bond rate - ref) * 100.
C10_InterpolatedReference ==
    (AswDone /\ tier = "interp") =>
        \A i \in 1..Len(m) :
            /\ m[i].years <= b[1].years => m[i].ref = b[1].rate
            /\ m[i].years >= b[Len(b)].years => m[i].ref = b[Len(b)].rate
            /\ \A j \in 1..(Len(b) - 1) :
                   (b[j].years <= m[i].years /\ m[i].years <= b[j + 1].years) =>
                       RMul(RSub(m[i].ref, b[j].rate), RInt(b[j + 1].years - b[j].years))
                           = RMul(RSub(b[j + 1].rate, b[j].rate),
                                  RInt(m[i].years - b[j].years))
            /\ m[i].rate = a[i].rate
            /\ ret[i].spread_bp = RMul(RSub(a[i].rate, m[i].ref), RInt(100))

\* C10 witness: bonds below, strictly between and above two swap quotes of
\* different rates.
C10_Witness ==
    /\ AswDone
    /\ tier = "interp"
    /\ Len(b) = 2
    /\ b[1].rate # b[2].rate
    /\ \E i \in 1..Len(m) : m[i].years < b[1].years
    /\ \E i \in 1..Len(m) : b[1].years < m[i].years /\ m[i].years < b[2].years
    /\ \E i \in 1..Len(m) : m[i].years > b[2].years

\* ------------------------------------------------------------------------
\* Hedging (modules/hedging.py)
\* ------------------------------------------------------------------------
\* An optional argument: None, or a value.
None == <<>>

Some(v) == <<v>>

\* Python min and max of two floats that are numbers: the first argument
\* unless the second is strictly beyond it.
RMin(x, y) == IF RLt(y, x) THEN y ELSE x

RMax(x, y) == IF RLt(x, y) THEN y ELSE x

\* round(x, k): the multiples of 10^-k nearest to x.  A value halfway
\* between two of them goes to either, as its binary expansion decides.
PyRound(x, k) ==
    LET u   == 10^k
        q   == (x.n * u) \div x.d
        rem == (x.n * u) - q * x.d
    IN  IF 2 * rem < x.d THEN {Rat(q, u)}
        ELSE IF 2 * rem > x.d THEN {Rat(q + 1, u)}
        ELSE {Rat(q, u), Rat(q + 1, u)}

\* str.upper() on the symbols that occur
Upper(sym) == IF sym = "fgbl" THEN "FGBL" ELSE IF sym = "zn" THEN "ZN" ELSE sym

\* futures_dv01_lookup: table.get(symbol.upper(), np.nan)
futures_dv01_lookup(sym) ==
    CASE Upper(sym) = "FGBL" -> RInt(85)
      [] Upper(sym) = "ZN"   -> RInt(80)
      [] Upper(sym) = "ZB"   -> RInt(120)
      [] Upper(sym) = "FGBM" -> RInt(55)
      [] Upper(sym) = "FGBS" -> RInt(30)
      [] OTHER               -> NaN

\* A row of a swap curve with its index label.
SwapRow(label, years, rate) == [label |-> label, years |-> years, rate |-> rate]

HasYears(r) == r.years # NaNYears

\* Series.idxmin() of (y - T).abs() on a non-empty y: the index label of
\* the first row at the least distance.
IdxMin(y, T) ==
    y[CHOOSE i \in 1..Len(y) :
          /\ \A j \in 1..Len(y) : Abs(y[i].years - T) <= Abs(y[j].years - T)
          /\ \A j \in 1..(i - 1) : Abs(y[j].years - T) > Abs(y[i].years - T)].label

\* pick_nearest_swap_tenor: y.iloc[idxmin] reads the sorted maturities at
\* the POSITION given by the index label idxmin returns (a negative
\* position counts from the end).  argmin of an empty sequence raises
\* ValueError, a position outside y raises IndexError.
pick_nearest_swap_tenor(df_swaps, T) ==
    LET y   == SortByYears(SelectSeq(df_swaps, HasYears))
        idx == IdxMin(y, T)
    IN  IF df_swaps = <<>> THEN [raised |-> "", years |-> NaNYears]
        ELSE IF y = <<>> THEN [raised |-> "ValueError", years |-> NaNYears]
        ELSE IF 0 <= idx /\ idx < Len(y) THEN [raised |-> "", years |-> y[idx + 1].years]
        ELSE IF -Len(y) <= idx /\ idx < 0
        THEN [raised |-> "", years |-> y[Len(y) + idx + 1].years]
        ELSE [raised |-> "IndexError", years |-> NaNYears]

\* swap_dv01_from_par_curve: nan for an empty table; idxmin on the rows
\* with years and rate (ValueError when none is left); then
\* tenor_years * alpha * 100.0
swap_dv01_from_par_curve(df_swaps, tenor_years, f) ==
    IF df_swaps = <<>> THEN [raised |-> "", dv01 |-> NaN]
    ELSE IF SelectSeq(df_swaps, IsUsable) = <<>> THEN [raised |-> "ValueError", dv01 |-> NaN]
    ELSE [raised |-> "",
          dv01 |-> RMul(RMul(Rat(tenor_years, YearUnit), Rat(1, f)), RInt(100))]

\* Mutant of liquidity_score: the two terms and the sum left unclamped.
liquidity_score_Unclamped(is_on_the_run, bid_ask_bp, est_daily_volume_mm) ==
    LET s0 == IF is_on_the_run THEN Rat(4, 10) ELSE RInt(0)
        s1 == IF bid_ask_bp = None THEN RInt(0)
              ELSE RMul(Rat(3, 10), RDiv(RInt(2), RMax(Rat(1, 2), bid_ask_bp[1])))
        s2 == IF est_daily_volume_mm = None THEN RInt(0)
              ELSE RMul(Rat(3, 10), RDiv(est_daily_volume_mm[1], RInt(200)))
    IN  RAdd(RAdd(s0, s1), s2)

\* liquidity_score
liquidity_score(is_on_the_run, bid_ask_bp, est_daily_volume_mm) ==
    LET s0 == IF is_on_the_run THEN Rat(4, 10) ELSE RInt(0)
        s1 == IF bid_ask_bp = None THEN RInt(0)
              ELSE RMax(RInt(0),
                        RMin(Rat(3, 10),
                             RMul(Rat(3, 10),
                                  RDiv(RInt(2), RMax(Rat(1, 2), bid_ask_bp[1])))))
        s2 == IF est_daily_volume_mm = None THEN RInt(0)
              ELSE RMax(RInt(0),
                        RMin(Rat(3, 10),
                             RMul(Rat(3, 10), RDiv(est_daily_volume_mm[1], RInt(200)))))
    IN  RMin(RInt(1), RAdd(RAdd(s0, s1), s2))

\* bond_dv01(face, coupon_pct, ytm_pct, T_years, freq = 2): abs() of a
\* price difference over the bump.  With n = int(round(T_years * 2)) <= 0
\* both prices are the face value and the result is 0.0; beyond that it is
\* a float >= 0 fixed by the bond, taken here from a grid of values.
Dv01Grid == {RInt(50), Rat(85, 2)}

bond_dv01(T_years) ==
    IF RoundHalfEven(2 * T_years, YearUnit) <= 0 THEN {RInt(0)} ELSE Dv01Grid

\* out["futures"], with contracts one of round(dv01_bond / dv01_fut, 2)
FuturesLeg(symbol, contracts) ==
    IF IsNaN(futures_dv01_lookup(symbol)) \/ ~RLt(RInt(0), futures_dv01_lookup(symbol))
    THEN [symbol |-> symbol, note |-> "DV01 inconnu"]
    ELSE [symbol |-> symbol, dv01_per_contract |-> futures_dv01_lookup(symbol),
          contracts |-> contracts]

\* Mutant of Contracts: whole contracts only.
Contracts_Whole(symbol, dv01_bond) ==
    IF IsNaN(futures_dv01_lookup(symbol)) \/ ~RLt(RInt(0), futures_dv01_lookup(symbol))
    THEN {RInt(0)}
    ELSE PyRound(RDiv(dv01_bond, futures_dv01_lookup(symbol)), 0)

\* The values round(n_fut, 2) can take (one value for a leg with a note).
Contracts(symbol, dv01_bond) ==
    IF IsNaN(futures_dv01_lookup(symbol)) \/ ~RLt(RInt(0), futures_dv01_lookup(symbol))
    THEN {RInt(0)}
    ELSE PyRound(RDiv(dv01_bond, futures_dv01_lookup(symbol)), 2)

\* out["irs"], with notional one of round(dv01_bond / irs_dv01 * 100.0, 4)
IrsLeg(tenor_swap, irs_dv01, notional) ==
    IF IsNaN(irs_dv01) \/ ~RLt(RInt(0), irs_dv01)
    THEN [note |-> "Courbe swaps indisponible"]
    ELSE [tenor_years |-> tenor_swap, dv01_per_100 |-> irs_dv01,
          receiver_fix_notional |-> notional]

Notionals(dv01_bond, irs_dv01) ==
    IF IsNaN(irs_dv01) \/ ~RLt(RInt(0), irs_dv01)
    THEN {RInt(0)}
    ELSE PyRound(RMul(RDiv(dv01_bond, irs_dv01), RInt(100)), 4)

\* ---- the calls ----
DeskFrame ==
    /\ UNCHANGED <<bootVars, alignVars>>
    /\ UNCHANGED <<op, args>>

DeskRaise(e) ==
    /\ pc' = "raised"
    /\ err' = e
    /\ UNCHANGED <<ret, out>>
    /\ DeskFrame

DeskReturn(v) ==
    /\ pc' = "done"
    /\ ret' = v
    /\ UNCHANGED <<err, out>>
    /\ DeskFrame

\* hedge_proposal: the bond DV01 and the futures leg
hedge_proposal_futures ==
    /\ pc = "call"
    /\ op = "hedge_proposal"
    /\ \E dv \in bond_dv01(args.T_years) :
         IF args.futures_symbol = None \/ args.futures_symbol = Some("")
         THEN out' = [k \in {"dv01_bond"} |-> dv]
         ELSE \E n \in Contracts(args.futures_symbol[1], dv) :
                 out' = [k \in {"dv01_bond", "futures"} |->
                            IF k = "dv01_bond" THEN dv
                            ELSE FuturesLeg(args.futures_symbol[1], n)]
    /\ pc' = "irs"
    /\ UNCHANGED <<err, ret>>
    /\ DeskFrame

\* hedge_proposal: the swap leg
hedge_proposal_irs ==
    /\ pc = "irs"
    /\ op = "hedge_proposal"
    /\ LET pick == pick_nearest_swap_tenor(args.df_swaps_ccy, args.T_years)
           irs  == swap_dv01_from_par_curve(args.df_swaps_ccy, pick.years,
                                            args.swap_freq_by_ccy)
       IN  IF pick.raised # "" THEN DeskRaise(pick.raised)
           ELSE IF irs.raised # "" THEN DeskRaise(irs.raised)
           ELSE /\ \E n \in Notionals(out["dv01_bond"], irs.dv01) :
                       out' = [k \in DOMAIN out \cup {"irs"} |->
                                  IF k = "irs" THEN IrsLeg(pick.years, irs.dv01, n)
                                  ELSE out[k]]
                /\ pc' = "liquidity"
                /\ UNCHANGED <<err, ret>>
                /\ DeskFrame

\* hedge_proposal: out["liquidity_score"] = round(liquidity_score(), 2)
\* with the defaults (True, 1.0, 50.0), and the return
hedge_proposal_return ==
    /\ pc = "liquidity"
    /\ op = "hedge_proposal"
    /\ \E sc \in PyRound(liquidity_score(TRUE, Some(RInt(1)), Some(RInt(50))), 2) :
          /\ out' = [k \in DOMAIN out \cup {"liquidity_score"} |->
                        IF k = "liquidity_score" THEN sc ELSE out[k]]
          /\ ret' = out'
    /\ pc' = "done"
    /\ UNCHANGED err
    /\ DeskFrame

\* a call of liquidity_score
liquidity_score_call ==
    /\ pc = "call"
    /\ op = "liquidity_score"
    /\ DeskReturn(liquidity_score(args.is_on_the_run, args.bid_ask_bp,
                                  args.est_daily_volume_mm))

\* ------------------------------------------------------------------------
\* Analytics (modules/analytics.py)
\* ------------------------------------------------------------------------
\* A row of df_all: country, tenor label (a string) and yield in percent.
Quote(country, tenor, yield) == [country |-> country, tenor |-> tenor, yield |-> yield]

\* str.lower() on the country names that occur
LowerCase(c) ==
    CASE c \in {"Germany", "GERMANY"} -> "germany"
      [] c = "France"                 -> "france"
      [] OTHER                        -> c

\* The default of the argument tenors.
MatrixTenors == {"2Y", "5Y", "10Y", "30Y"}

\* d = d[d["tenor"].isin(tenors)]
InTenors(d_all) ==
    LET Listed(r) == r.tenor \in MatrixTenors
    IN  SelectSeq(d_all, Listed)

\* Mutant of RefQuotes: the country compared as written.
RefQuotes_CaseSensitive(dd, ref_country) ==
    LET IsRef(r) == r.country = ref_country
    IN  SelectSeq(dd, IsRef)

\* ref = d[d["country"].str.lower() == ref_country.lower()]
RefQuotes(dd, ref_country) ==
    LET IsRef(r) == LowerCase(r.country) = LowerCase(ref_country)
    IN  SelectSeq(dd, IsRef)

\* (yield - ref) * 100, missing when either is
SpreadBp(yield, ref) ==
    IF IsNaN(yield) \/ IsNaN(ref) THEN NaN ELSE RMul(RSub(yield, ref), RInt(100))

\* d.merge(ref, on = "tenor", how = "left") with spread_bp: every row of d,
\* in order, once for every reference quote of its tenor, and once with a
\* missing ref when there is none.
RECURSIVE LeftMerge(_, _)
LeftMerge(dd, refq) ==
    IF dd = <<>> THEN <<>>
    ELSE LET last    == dd[Len(dd)]
             Same(r) == r.tenor = last.tenor
             hits    == SelectSeq(refq, Same)
             Cell(v) == [country |-> last.country, tenor |-> last.tenor, spread_bp |-> v]
         IN  LeftMerge(SubSeq(dd, 1, Len(dd) - 1), refq)
                 \o (IF hits = <<>> THEN <<Cell(NaN)>>
                     ELSE [i \in 1..Len(hits) |-> Cell(SpreadBp(last.yield, hits[i].yield))])

\* pivot refuses an index that holds a (country, tenor) pair twice
HasDuplicates(mm) ==
    \E i, j \in 1..Len(mm) :
        i < j /\ mm[i].country = mm[j].country /\ mm[i].tenor = mm[j].tenor

\* m.pivot(index = "country", columns = "tenor", values = "spread_bp"): a
\* row for every country of m, a column for every tenor of m, a missing
\* value where m has no row for the pair.
Pivot(mm) ==
    LET index   == {mm[i].country : i \in 1..Len(mm)}
        columns == {mm[i].tenor : i \in 1..Len(mm)}
    IN  [index   |-> index,
         columns |-> columns,
         cell    |-> [c \in index, t \in columns |->
                        IF \E i \in 1..Len(mm) : mm[i].country = c /\ mm[i].tenor = t
                        THEN mm[CHOOSE i \in 1..Len(mm) :
                                    mm[i].country = c /\ mm[i].tenor = t].spread_bp
                        ELSE NaN]]

\* g10_matrix_spreads_vs_ref
g10_matrix_spreads_vs_ref ==
    /\ pc = "call"
    /\ op = "g10_matrix_spreads_vs_ref"
    /\ LET dd == InTenors(args.df_all)
           mm == LeftMerge(dd, RefQuotes(dd, args.ref_country))
       IN  IF dd = <<>>
           THEN DeskReturn([index |-> {}, columns |-> MatrixTenors, cell |-> <<>>])
           ELSE IF HasDuplicates(mm) THEN DeskRaise("ValueError")
           ELSE DeskReturn(Pivot(mm))

\* ------------------------------------------------------------------------
\* Tenor parsing (calculations.py, analytics.py, data_loader.py)
\* ------------------------------------------------------------------------
\* An argument that is a number (int or float) instead of a label.
Number(y) == [number |-> y]

IsNumber(x) == DOMAIN x = {"number"}

\* calculations._tenor_to_years on any argument: a number passes through,
\* a label is parsed.
_tenor_to_years(x) ==
    IF IsNumber(x) THEN [raised |-> FALSE, years |-> x.number] ELSE tenor_to_years(x)

\* analytics.tenor_to_years and data_loader.tenor_to_years: None for
\* whatever is not a string, a number included; a string is stripped,
\* upper-cased and parsed as in _tenor_to_years.
str_tenor_to_years(x) ==
    IF IsNumber(x) THEN [raised |-> FALSE, years |-> NaNYears] ELSE tenor_to_years(x)

ParseReturn(res) ==
    IF res.raised THEN DeskRaise("ValueError") ELSE DeskReturn(res.years)

calculations_tenor_to_years ==
    /\ pc = "call"
    /\ op = "calculations._tenor_to_years"
    /\ ParseReturn(_tenor_to_years(args))

analytics_tenor_to_years ==
    /\ pc = "call"
    /\ op = "analytics.tenor_to_years"
    /\ ParseReturn(str_tenor_to_years(args))

data_loader_tenor_to_years ==
    /\ pc = "call"
    /\ op = "data_loader.tenor_to_years"
    /\ ParseReturn(str_tenor_to_years(args))

\* ---- the inputs of the hedging calls ----
\* Longest swap curve handed to hedge_proposal.
MaxSwapRows == 3

\* Swap maturities: missing, 0, 0.16, 2 and 10 years.
HedgeYears == {NaNYears, 0, 16 * (YearUnit \div 100), 2 * YearUnit, 10 * YearUnit}

\* Swap curves in any order of maturities: with the default index labels
\* 0, 1, 2, ...; with labels from 1 on (a frame filtered out of a longer
\* one); and with the rate of the first row missing.
HedgeCurves ==
    {[i \in 1..Len(ys) |->
         SwapRow(i - 1 + (IF scheme = "from1" THEN 1 ELSE 0), ys[i],
                 IF scheme = "norate" /\ i = 1 THEN NaN ELSE RInt(3))] :
        ys \in SeqsUpTo(HedgeYears, MaxSwapRows),
        scheme \in {"default", "from1", "norate"}}

HedgeCalls ==
    [T_years : {YearUnit \div 4, 2 * YearUnit, 10 * YearUnit},
     df_swaps_ccy : HedgeCurves,
     futures_symbol : {None, Some(""), Some("fgbl"), Some("XXX")},
     swap_freq_by_ccy : {1, 2}]

LiquidityCalls ==
    [is_on_the_run : BOOLEAN,
     bid_ask_bp : {None} \cup {Some(Rat(w, 4)) : w \in {0, 1, 2, 4, 8, 32}},
     est_daily_volume_mm : {None} \cup {Some(RInt(v)) : v \in {0, 50, 200, 1000}}]

\* ---- the inputs of the analytics calls ----
\* Largest batch handed to g10_matrix_spreads_vs_ref.
MaxBatch == 3

\* The quotes a batch is made of: the reference under two spellings, with
\* and without a valid yield, at listed tenors and at one that is not; and
\* another country quoting tenors the reference may lack.
QuotePool ==
    {Quote("Germany", "2Y", RInt(2)), Quote("Germany", "2Y", Rat(21, 10)),
     Quote("Germany", "10Y", RInt(3)), Quote("Germany", "10Y", NaN),
     Quote("Germany", "7Y", RInt(2)), Quote("GERMANY", "30Y", RInt(4)),
     Quote("France", "2Y", RInt(3)), Quote("France", "10Y", RInt(4)),
     Quote("France", "30Y", RInt(5))}

MatrixCalls ==
    [df_all : SeqsUpTo(QuotePool, MaxBatch), ref_country : {"Germany", "france"}]

\* ---- the inputs of the tenor parsers ----
\* "<n>Y" and "<n>M" for n = 0 .. 12, "10W", "ABCY", "ABCM", "Y", "M", "",
\* None, and the numbers 0.5, 2 and 10.
ParseInputs ==
    {Label("num", n, u) : n \in 0..12, u \in {"Y", "M"}}
    \cup {Label("num", 10, "W"), Label("bad", 0, "Y"), Label("bad", 0, "M"),
          Label("empty", 0, "Y"), Label("empty", 0, "M"), Label("empty", 0, ""), NoLabel}
    \cup {Number(YearUnit \div 2), Number(2 * YearUnit), Number(10 * YearUnit)}

Parsers ==
    {"calculations._tenor_to_years", "analytics.tenor_to_years", "data_loader.tenor_to_years"}

InitDesk ==
    /\ pc = "call"
    /\ err = ""
    /\ ret = <<>>
    /\ BootIdle
    /\ AlignIdle
    /\ out = <<>>
    /\ \/ op = "hedge_proposal" /\ args \in HedgeCalls
       \/ op = "liquidity_score" /\ args \in LiquidityCalls
       \/ op = "g10_matrix_spreads_vs_ref" /\ args \in MatrixCalls
       \/ op \in Parsers /\ args \in ParseInputs

NextDesk ==
    \/ hedge_proposal_futures
    \/ hedge_proposal_irs
    \/ hedge_proposal_return
    \/ liquidity_score_call
    \/ g10_matrix_spreads_vs_ref
    \/ calculations_tenor_to_years
    \/ analytics_tenor_to_years
    \/ data_loader_tenor_to_years

SpecDesk == InitDesk /\ [][NextDesk]_vars

\* ------------------------------------------------------------------------
\* Claims on hedging
\* ------------------------------------------------------------------------
\* |x - y| <= eps
Within(x, y, eps) == RLeq(RSub(x, y), eps) /\ RLeq(RSub(y, x), eps)

\* a multiple of 1 / u
IsMultipleOf(x, u) == u % x.d = 0

\* The legs of the proposal built so far that carry a size.
HasContracts ==
    /\ op = "hedge_proposal"
    /\ "futures" \in DOMAIN out
    /\ "contracts" \in DOMAIN out["futures"]

HasNotional ==
    /\ op = "hedge_proposal"
    /\ "irs" \in DOMAIN out
    /\ "receiver_fix_notional" \in DOMAIN out["irs"]

ExactContracts == RDiv(out["dv01_bond"], out["futures"].dv01_per_contract)

ExactNotional == RMul(RDiv(out["dv01_bond"], out["irs"].dv01_per_100), RInt(100))

\* C11 as stated: the contracts are the quotient bondDv01 / dv01PerContract
\* and the notional is bondDv01 / swapDv01Per100 * 100, to the three
\* decimals the example is quoted with: 50.0 against 85.0 gives 0.588 and
\* 50.0 against 8.0 gives 625.0.
C11_Original ==
    /\ HasContracts =>
          /\ Within(out["futures"].contracts, ExactContracts, Rat(1, 2000))
          /\ (out["dv01_bond"] = RInt(50) /\ out["futures"].dv01_per_contract = RInt(85)) =>
                 Within(out["futures"].contracts, Rat(588, 1000), Rat(1, 2000))
    /\ HasNotional =>
          /\ Within(out["irs"].receiver_fix_notional, ExactNotional, Rat(1, 2000))
          /\ (out["dv01_bond"] = RInt(50) /\ out["irs"].dv01_per_100 = RInt(8)) =>
                 Within(out["irs"].receiver_fix_notional, RInt(625), Rat(1, 2000))

\* C11 amended: the contracts are bondDv01 / dv01PerContract rounded to two
\* decimals (fractional, a multiple of 0.01 within 0.005 of the quotient:
\* 50.0 against 85.0 gives 0.59) and the notional is
\* bondDv01 / swapDv01Per100 * 100 rounded to four decimals (50.0 against
\* 8.0 gives 625.0).
C11_Amended ==
    /\ HasContracts =>
          /\ IsMultipleOf(out["futures"].contracts, 100)
          /\ Within(out["futures"].contracts, ExactContracts, Rat(1, 200))
          /\ (out["dv01_bond"] = RInt(50) /\ out["futures"].dv01_per_contract = RInt(85)) =>
                 out["futures"].contracts = Rat(59, 100)
    /\ HasNotional =>
          /\ IsMultipleOf(out["irs"].receiver_fix_notional, 10000)
          /\ Within(out["irs"].receiver_fix_notional, ExactNotional, Rat(1, 20000))
          /\ (out["dv01_bond"] = RInt(50) /\ out["irs"].dv01_per_100 = RInt(8)) =>
                 out["irs"].receiver_fix_notional = RInt(625)

\* C11 witness: a returned proposal for a bond DV01 of 50.0 with 0.59
\* contracts of 85.0 each and a notional of 625.0 against a swap DV01 of 8.0.
C11_Witness ==
    /\ pc = "done"
    /\ HasContracts
    /\ HasNotional
    /\ ret["dv01_bond"] = RInt(50)
    /\ ret["futures"].dv01_per_contract = RInt(85)
    /\ ret["futures"].contracts = Rat(59, 100)
    /\ ret["irs"].dv01_per_100 = RInt(8)
    /\ ret["irs"].receiver_fix_notional = RInt(625)

\* The hedge inputs of the call that are missing or invalid: a futures
\* symbol the table does not know, a swap curve without rows or without
\* any row that has a valid years value.
UnknownSymbol ==
    /\ args.futures_symbol \notin {None, Some("")}
    /\ IsNaN(futures_dv01_lookup(args.futures_symbol[1]))

UnusableSwapCurve == SelectSeq(args.df_swaps_ccy, HasYears) = <<>>

\* C12 as stated: a call of hedge_proposal with an unknown futures symbol
\* or an unusable swap curve never raises; its result has the bond DV01 and
\* the liquidity score, a futures leg with a note and no contracts for the
\* unknown symbol, and a swap leg with a note and no notional for the
\* unusable curve.
C12_Original ==
    (op = "hedge_proposal" /\ (UnknownSymbol \/ UnusableSwapCurve)) =>
        /\ pc # "raised"
        /\ pc = "done" =>
              /\ {"dv01_bond", "liquidity_score", "irs"} \subseteq DOMAIN ret
              /\ UnknownSymbol =>
                    /\ "futures" \in DOMAIN ret
                    /\ "note" \in DOMAIN ret["futures"]
                    /\ "contracts" \notin DOMAIN ret["futures"]
              /\ UnusableSwapCurve =>
                    /\ "note" \in DOMAIN ret["irs"]
                    /\ "receiver_fix_notional" \notin DOMAIN ret["irs"]

\* C13 as stated: the tenor of the swap leg is a maturity of the swap curve
\* at the least distance from the bond maturity T, whatever the order of
\* the rows and their index labels.
C13_Original ==
    (op = "hedge_proposal" /\ "irs" \in DOMAIN out /\ "tenor_years" \in DOMAIN out["irs"]) =>
        LET y == SelectSeq(args.df_swaps_ccy, HasYears)
        IN  /\ \E i \in 1..Len(y) : y[i].years = out["irs"].tenor_years
            /\ \A i \in 1..Len(y) :
                   Abs(out["irs"].tenor_years - args.T_years) <= Abs(y[i].years - args.T_years)

\* C14: liquidity_score returns a value in [0, 1] for either value of the
\* on-the-run flag, any bid/ask width >= 0 or none, and any daily volume
\* >= 0 or none.
C14_ScoreWithinUnitInterval ==
    (op = "liquidity_score" /\ pc = "done") =>
        RLeq(RInt(0), ret) /\ RLeq(ret, RInt(1))

\* C14 witness: an on-the-run bond with a zero bid/ask width and a volume
\* of 1000 scores exactly 1, both terms held at their cap of 0.3.
C14_Witness ==
    /\ op = "liquidity_score"
    /\ pc = "done"
    /\ args.is_on_the_run
    /\ args.bid_ask_bp = Some(RInt(0))
    /\ args.est_daily_volume_mm = Some(RInt(1000))
    /\ ret = RInt(1)

\* ------------------------------------------------------------------------
\* Claims on analytics
\* ------------------------------------------------------------------------
\* The rows of the returned matrix that are the reference's own.
MatrixDone == op = "g10_matrix_spreads_vs_ref" /\ pc = "done"

ReferenceRows == {c \in ret.index : LowerCase(c) = LowerCase(args.ref_country)}

\* The reference identity c quotes tenor t with a valid yield.
QuotesValid(c, t) ==
    \E i \in 1..Len(args.df_all) :
        /\ args.df_all[i].country = c
        /\ args.df_all[i].tenor = t
        /\ ~IsNaN(args.df_all[i].yield)

\* C15 as stated: the reference's own row of the returned matrix has spread
\* 0 at every tenor column of the matrix, tenors that only other identities
\* quote included (checked on the batches whose yields are all valid).
C15_Original ==
    (MatrixDone /\ \A i \in 1..Len(args.df_all) : ~IsNaN(args.df_all[i].yield)) =>
        \A c \in ReferenceRows : \A t \in ret.columns : ret.cell[c, t] = RInt(0)

\* C15 amended: the reference's own row of the returned matrix has spread 0
\* at every tenor column that the reference itself quotes with a valid
\* yield, and a missing value at every other column.
C15_Amended ==
    MatrixDone =>
        \A c \in ReferenceRows : \A t \in ret.columns :
            ret.cell[c, t] = IF QuotesValid(c, t) THEN RInt(0) ELSE NaN

\* C15 witness: a returned matrix with the reference's row and another
\* country's, the reference at 0 in one column and missing in a second one
\* that only the other country quotes.
C15_Witness ==
    /\ MatrixDone
    /\ args.ref_country = "Germany"
    /\ {"Germany", "France"} \subseteq ret.index
    /\ {"2Y", "30Y"} \subseteq ret.columns
    /\ ret.cell["Germany", "2Y"] = RInt(0)
    /\ IsNaN(ret.cell["Germany", "30Y"])
    /\ ret.cell["France", "2Y"] = RInt(100)

\* ------------------------------------------------------------------------
\* Claims on the bootstrap, continued
\* ------------------------------------------------------------------------
\* The curve has one usable point, of period index 1, and it is processed.
OnePointCurve == Len(d) = 1 /\ d[1].N = 1 /\ it = 1 /\ pc \in {"loop", "done"}

\* 1 / (1 + y / frequency) for the par rate of the point, y = rate / 100
SinglePeriodDF == RDiv(RInt(1), RAdd(RInt(1), RDiv(RDiv(d[1].rate, RInt(100)), RInt(freq))))

\* The single-period identity: DF[1] = 1 / (1 + y / frequency), the row
\* emitted at t = 1 / frequency carries the zero yield of that factor, and
\* with annual frequency and annual compounding that zero yield,
\* 100 * (DF ** -1 - 1), is the quoted rate.
SinglePeriodIdentity ==
    /\ DF[1] = NumOf(SinglePeriodDF)
    /\ rows = <<[years |-> Rat(1, freq), zero |-> ZeroYield(comp, NumOf(SinglePeriodDF), Rat(1, freq))]>>
    /\ (freq = 1 /\ comp = "annual") =>
           RMul(RSub(RDiv(RInt(1), rows[1].zero.df.q), RInt(1)), RInt(100)) = d[1].rate

\* C16 as stated: a one-point par curve whose point has period index 1
\* bootstraps to DF[1] = 1 / (1 + y / frequency) and to the matching zero
\* yield, in both variants.
C16_Original == OnePointCurve => SinglePeriodIdentity

\* C16 amended: the same for a par rate y >= 0; a negative rate gives a
\* factor above 1 that is stored as 1.0 (zero yield 0).
C16_Amended == (OnePointCurve /\ d[1].rate.n >= 0) => SinglePeriodIdentity

\* C16 witness: a finished one-point bootstrap at annual frequency and
\* annual compounding of a 50% par rate: DF[1] = 2/3 and the zero yield is
\* the term of that factor.
C16_Witness ==
    /\ OnePointCurve
    /\ pc = "done"
    /\ freq = 1
    /\ comp = "annual"
    /\ d[1].rate = RInt(50)
    /\ DF[1] = NumOf(Rat(2, 3))
    /\ ret[1].zero.df = NumOf(Rat(2, 3))

\* ------------------------------------------------------------------------
\* Claims on tenor parsing
\* ------------------------------------------------------------------------
\* The argument is of the form "<n>Y" or "<n>M" with a numeric n.
WellFormedLabel(x) == ~IsNumber(x) /\ x.body = "num" /\ x.unit \in {"Y", "M"}

\* C18 as stated: for every argument that is neither a well-formed label
\* nor a number, each of the three parsers returns undefined and does not
\* raise.
C18_Original ==
    (op \in Parsers /\ ~IsNumber(args) /\ ~WellFormedLabel(args)) =>
        /\ pc # "raised"
        /\ pc = "done" => ret = NaNYears

\* ------------------------------------------------------------------------
\* Curve normalisation inside the spread functions
\* ------------------------------------------------------------------------
\* ---- the inputs of the normalisation specification ----
\* Longest target curve.
MaxNormRows == 3

\* The rows a target curve is made of: a month label (0.5 year), two quotes
\* of 2 years of which the second has no label, a maturity of 0, a row
\* without a rate and a row without years (its label says 10Y).
NormRows ==
    {Row(Label("num", 6, "M"), YearUnit \div 2, Rat(20, 10)),
     Row(Y(2), 2 * YearUnit, Rat(30, 10)),
     Row(NoLabel, 2 * YearUnit, Rat(40, 10)),
     Row(Y(0), 0, Rat(10, 10)),
     Row(Y(5), 5 * YearUnit, NaN),
     Row(Y(10), NaNYears, Rat(45, 10))}

\* A table with a tenor and a years column, with years only, or with the
\* tenor labels only.
NormTable(s, kind) ==
    CASE kind = "both"   -> Table({"tenor", "years", "rate"}, s)
      [] kind = "years"  -> Table({"years", "rate"}, Unlabelled(s))
      [] kind = "labels" -> Table({"tenor", "rate"},
                                  [i \in 1..Len(s) |-> Row(s[i].tenor, NaNYears, s[i].rate)])

NormTargets ==
    {NormTable(s, kind) : s \in SeqsUpTo(NormRows, MaxNormRows),
                          kind \in {"both", "years", "labels"}}

NormRefs ==
    {NormTable(<<Row(Y(2), 2 * YearUnit, Rat(10, 10)),
                 Row(Y(10), 10 * YearUnit, Rat(20, 10))>>, "both"),
     NormTable(<<Row(Label("num", 6, "M"), YearUnit \div 2, Rat(5, 10)),
                 Row(Y(2), 2 * YearUnit, Rat(10, 10)),
                 Row(Label("num", 6, "M"), YearUnit \div 2, Rat(7, 10))>>, "labels"),
     NormTable(<<Row(Y(2), 2 * YearUnit, Rat(10, 10)),
                 Row(Y(0), 0, Rat(5, 10))>>, "years"),
     NormTable(<<>>, "both")}

InitNorm ==
    /\ pc = "call"
    /\ err = ""
    /\ ret = <<>>
    /\ BootIdle
    /\ DeskIdle
    /\ df_target \in NormTargets
    /\ df_ref \in NormRefs
    /\ fn \in {"add_spread_vs_ref_par", "swap_spread_vs_ref", "_compute_asw",
               "asw_spread", "add_spread_vs_ref"}
    /\ tol = DefaultTol
    /\ a = <<>>
    /\ b = <<>>
    /\ m = <<>>
    /\ tier = "none"

SpecNorm == InitNorm /\ [][NextAlign]_vars

\* ------------------------------------------------------------------------
\* Claims on normalisation
\* ------------------------------------------------------------------------
\* The functions of the core that normalise both curves with _clean_curve
\* or _clean_par_curve.
Normalising == {"add_spread_vs_ref_par", "swap_spread_vs_ref", "asw_spread"}

\* The call has normalised both curves into a and b.
Normalised == fn \in Normalising /\ tier # "none"

\* What the contract makes of a label: n years for "<n>Y", n / 12 for "<n>M".
ContractYears(l) ==
    IF l.unit = "Y" THEN l.val * YearUnit ELSE RoundHalfEven(l.val * YearUnit, 12)

\* C17 as stated: in every normalisation path, a curve given by its tenor
\* labels only keeps each point labelled "<n>Y" or "<n>M" that has a rate,
\* at n years or n / 12 years.
C17_Original ==
    (Normalised /\ "years" \notin df_target.cols) =>
        \A i \in 1..Len(df_target.rows) :
            (WellFormedLabel(df_target.rows[i].tenor) /\ ~IsNaN(df_target.rows[i].rate)) =>
                ContractYears(df_target.rows[i].tenor) \in YearsOf(a)

\* The rows of table t that have a valid years and a valid rate, in the
\* order of the table, with years as the called function derives them.
Sources(t) ==
    DropNa(IF fn = "add_spread_vs_ref_par" THEN coerce_years_from_tenor(t).rows
           ELSE coerce_years_from_tenor_local(t))

\* The rows of Sources(t) at maturity y.
SourcesAt(t, y) ==
    LET At(r) == r.years = y
    IN  SelectSeq(Sources(t), At)

\* Curve c is table t normalised: strictly increasing years, one point for
\* every maturity of a valid row and for no other, the rate of a point the
\* mean of the rates of the valid rows of its maturity.
SortedUniqueMeans(c, t) ==
    /\ \A i \in 1..(Len(c) - 1) : c[i].years < c[i + 1].years
    /\ YearsOf(c) = YearsOf(Sources(t))
    /\ \A i \in 1..Len(c) :
           RMul(c[i].rate, RInt(Len(SourcesAt(t, c[i].years))))
               = SumRates(SourcesAt(t, c[i].years))

\* The label of a point is that of the first valid row of its maturity.
LabelOfFirstRow(c, t) ==
    \A i \in 1..Len(c) : c[i].tenor = SourcesAt(t, c[i].years)[1].tenor

\* The label of a point is the first label that is not missing among the
\* valid rows of its maturity, and missing when they all lack one.
FirstLabelPresent(c, t) ==
    \A i \in 1..Len(c) :
        LET grp == SourcesAt(t, c[i].years)
        IN  IF \A j \in 1..Len(grp) : grp[j].tenor = NoLabel
            THEN c[i].tenor = NoLabel
            ELSE \E k \in 1..Len(grp) :
                    /\ grp[k].tenor # NoLabel
                    /\ c[i].tenor = grp[k].tenor
                    /\ \A j \in 1..(k - 1) : grp[j].tenor = NoLabel

C20_Original ==
    Normalised =>
        /\ \A y \in YearsOf(a) \cup YearsOf(b) : y > 0 /\ y # NaNYears
        /\ pc = "done" => \A y \in YearsOf(ret) : y > 0 /\ y # NaNYears

\* ------------------------------------------------------------------------
\* A process that calls the bootstrap several times (specification
\* SpecSession)
\* ------------------------------------------------------------------------
\* Calls made by one process.
MaxCalls == 2

\* The curves of a session: ascending or shuffled, complete or with gaps,
\* with a duplicate period, a missing rate, a zero denominator, labels only,
\* no row, no column.
SessionTables ==
    {Table({"years", "rate"}, <<Row(NoLabel, YearUnit, RInt(200))>>),
     Table({"years", "rate"},
           <<Row(NoLabel, YearUnit \div 2, RInt(200)), Row(NoLabel, YearUnit, RInt(50))>>),
     Table({"years", "rate"},
           <<Row(NoLabel, 2 * YearUnit, RInt(50)), Row(NoLabel, YearUnit, RInt(-200)),
             Row(NoLabel, 3 * (YearUnit \div 2), RInt(200))>>),
     Table({"years", "rate"},
           <<Row(NoLabel, YearUnit, RInt(300)), Row(NoLabel, YearUnit, RInt(50)),
             Row(NoLabel, 2 * YearUnit, NaN)>>),
     Table({"years", "rate"},
           <<Row(NoLabel, YearUnit, RInt(50)), Row(NoLabel, 2 * YearUnit, RInt(-50))>>),
     Table({"tenor", "rate"},
           <<Row(Label("num", 6, "M"), NaNYears, RInt(50)),
             Row(Label("num", 1, "Y"), NaNYears, RInt(200))>>),
     Table({"years", "rate"}, <<>>),
     Table({}, <<>>)}

InitSession ==
    /\ pc = "call"
    /\ err = ""
    /\ ret = <<>>
    /\ variant \in {"bond", "swap"}
    /\ df_in \in SessionTables
    /\ freq \in {1, 2}
    /\ comp \in {"cont", "annual"}
    /\ d = <<>>
    /\ DF = <<>>
    /\ rows = <<>>
    /\ it = 0
    /\ calls = 1
    /\ AlignIdle
    /\ DeskIdle

\* The caller takes the result (or the exception) of a call and calls one of
\* the two functions again.  d, DF and rows are locals of the function: the
\* frame of the finished call is dead storage, left as it is here, and the
\* new call binds each of them when it reaches its assignment (lines 95-100
\* and 146-152).
NextCall ==
    /\ pc \in {"done", "raised"}
    /\ calls < MaxCalls
    /\ calls' = calls + 1
    /\ pc' = "call"
    /\ err' = ""
    /\ ret' = <<>>
    /\ variant' \in {"bond", "swap"}
    /\ df_in' \in SessionTables
    /\ freq' \in {1, 2}
    /\ comp' \in {"cont", "annual"}
    /\ UNCHANGED <<d, DF, rows, it>>
    /\ UNCHANGED <<alignVars, deskVars>>

NextSession ==
    \/ NextBoot
    \/ NextCall

SpecSession == InitSession /\ [][NextSession]_vars

\* ------------------------------------------------------------------------
\* Claims on a session of bootstrap calls (specification SpecSession)
\* ------------------------------------------------------------------------
\* The pass of one call made alone, from row i of its period grid, with the
\* table and the rows it has built: the exception it ends with ("" when
\* none) and the rows it has emitted.
RECURSIVE PassAlone(_, _, _, _, _, _, _)
PassAlone(v, grid, f, cmp, i, table, acc) ==
    IF i > Len(grid) THEN [err |-> "", rows |-> acc]
    ELSE LET N  == grid[i].N
             t  == Rat(N, f)
             c  == Coupon(grid[i].rate, f)
             S  == SwapFix(grid[i].rate)
             z  == IF v = "bond" THEN BondDivByZero(table, N, c)
                   ELSE SwapDivByZero(S, f)
             df == IF v = "bond" THEN BondDF(table, N, c) ELSE SwapDF(table, N, S, f)
         IN  IF z THEN [err |-> "ZeroDivisionError", rows |-> <<>>]
             ELSE PassAlone(v, grid, f, cmp, i + 1, Store(table, N, df),
                            Append(acc, [years |-> t, zero |-> ZeroYield(cmp, df, t)]))

\* The outcome of one call made alone: [pc, err, ret].
Outcome(p, e, r) == [pc |-> p, err |-> e, ret |-> r]

CallAlone(v, tbl, f, cmp) ==
    LET coerce == v = "bond" /\ "years" \notin tbl.cols /\ "tenor" \in tbl.cols
        rs     == IF coerce THEN MapTenor(tbl.rows) ELSE tbl.rows
        pass   == PassAlone(v, PeriodGrid(rs, f), f, cmp, 1, <<>>, <<>>)
    IN  IF v = "swap" /\ (tbl.rows = <<>> \/ tbl.cols = {})
        THEN Outcome("done", "", <<>>)
        ELSE IF coerce /\ \E i \in 1..Len(tbl.rows) : tenor_to_years(tbl.rows[i].tenor).raised
        THEN Outcome("raised", "ValueError", <<>>)
        ELSE IF ("years" \notin tbl.cols /\ ~coerce) \/ "rate" \notin tbl.cols
        THEN Outcome("raised", "KeyError", <<>>)
        ELSE IF pass.err # "" THEN Outcome("raised", pass.err, <<>>)
        ELSE IF pass.rows = <<>> THEN Outcome("raised", "KeyError", <<>>)
        ELSE Outcome("done", "", SortRows(pass.rows))

\* C21: bootstrap calls share no state: whatever calls came before it, a
\* finished call returns (or raises) what the same call returns when it is
\* made alone, for its curve, frequency, compounding and variant.
C21_CallsShareNoState ==
    pc \in {"done", "raised"} =>
        Outcome(pc, err, ret) = CallAlone(variant, df_in, freq, comp)

\* C21 witness: the second call of a session has returned the two-row zero
\* curve of a grid with gaps (periods 2 and 4), the one it returns alone.
C21_Witness ==
    /\ calls = 2
    /\ pc = "done"
    /\ Len(ret) = 2
    /\ DOMAIN DF = {2, 4}
    /\ ret = CallAlone(variant, df_in, freq, comp).ret

\* ------------------------------------------------------------------------
\* The yield loader (modules/data_loader.py)
\* ------------------------------------------------------------------------
\* COUNTRY_PAGE_SLUGS and DEFAULT_G10: the model keeps three of the ten
\* countries, in the order of the dictionary.
COUNTRY_PAGE_SLUGS == {"Germany", "France", "Italy"}

DEFAULT_G10 == <<"Germany", "France", "Italy">>

\* The rank of a country name in sort_values(by = ["country", "years"]).
CountryRank(c) ==
    CASE c = "France" -> 1 [] c = "Germany" -> 2 [] c = "Italy" -> 3 [] OTHER -> 4

\* A row of a parsed page: the country, the page it was read from.
YieldRow(country, page) == [country |-> country, tenor |-> "10Y", page |-> page]

\* What a page can be: not fetched (_http_get raises after its retries),
\* fetched but without a table to parse, or parsed into rows.  The world
\* page quotes a set of countries, a country page quotes its country or is
\* labelled with another name.
WorldPages ==
    {[status |-> "fetch_error"], [status |-> "parse_error"]}
    \cup {[status |-> "ok", countries |-> W] : W \in SUBSET {"Germany", "France"}}

CountryPages(country) ==
    {[status |-> "fetch_error"], [status |-> "parse_error"],
     [status |-> "ok", countries |-> {country}],
     [status |-> "ok", countries |-> {"Other"}]}

\* The frame parsed from a page, one row per country it quotes.
RECURSIVE FrameOf(_, _)
FrameOf(cs, page) ==
    IF cs = {} THEN <<>>
    ELSE LET c == CHOOSE x \in cs : \A y \in cs : CountryRank(x) <= CountryRank(y)
         IN  <<YieldRow(c, page)>> \o FrameOf(cs \ {c}, page)

\* list(<set>): the elements in any order
RECURSIVE Orders(_)
Orders(S) ==
    IF S = {} THEN {<<>>}
    ELSE UNION {{<<x>> \o o : o \in Orders(S \ {x})} : x \in S}

\* wanted = set(countries) if countries else None
Wanted(countries) ==
    IF countries = None \/ countries = Some({}) THEN None ELSE countries

\* pd.concat(result_frames, ignore_index = True)
RECURSIVE Concat(_)
Concat(frames) ==
    IF frames = <<>> THEN <<>> ELSE Head(frames) \o Concat(Tail(frames))

\* drop_duplicates(subset = ["country", "tenor"]): the first row is kept
RECURSIVE DropDuplicateQuotes(_)
DropDuplicateQuotes(s) ==
    IF s = <<>> THEN <<>>
    ELSE LET head == DropDuplicateQuotes(SubSeq(s, 1, Len(s) - 1))
             last == s[Len(s)]
         IN  IF \E i \in 1..Len(head) :
                    head[i].country = last.country /\ head[i].tenor = last.tenor
             THEN head
             ELSE Append(head, last)

\* sort_values(by = ["country", "years"])
RECURSIVE SortByCountry(_)
SortByCountry(s) ==
    IF s = <<>> THEN <<>>
    ELSE LET head == SortByCountry(SubSeq(s, 1, Len(s) - 1))
             last == s[Len(s)]
             k    == Cardinality({i \in 1..Len(head) :
                                     CountryRank(head[i].country) <= CountryRank(last.country)})
         IN  SubSeq(head, 1, k) \o <<last>> \o SubSeq(head, k + 1, Len(head))

\* The locals of fetch_yields: result_frames, missing, and a record of the
\* pages requested so far (world: "skipped", "failed" or "ok").
LoaderFrame(frames, missing, world, requested) ==
    [result_frames |-> frames, missing |-> missing, world |-> world,
     requested |-> requested]

\* fetch_yields, lines 199-223: the world page
fetch_yields_world ==
    /\ pc = "call"
    /\ op = "fetch_yields"
    /\ LET wanted == Wanted(args.countries)
           all    == IF wanted = None THEN {<<>>} ELSE Orders(wanted[1])
       IN  IF args.prefer_world
           THEN \E page \in WorldPages :
                   IF page.status # "ok"
                   THEN \E missing \in all :
                           out' = LoaderFrame(<<>>, missing, "failed", {})
                   ELSE LET covered == IF wanted = None THEN page.countries
                                       ELSE page.countries \cap wanted[1]
                            rest    == IF wanted = None THEN {<<>>}
                                       ELSE Orders(wanted[1] \ covered)
                        IN  \E missing \in rest :
                               out' = LoaderFrame(<<FrameOf(covered, "world")>>,
                                                  missing, "ok", {})
           ELSE \E missing \in (IF wanted = None THEN {DEFAULT_G10} ELSE all) :
                   out' = LoaderFrame(<<>>, missing, "skipped", {})
    /\ pc' = "pages"
    /\ UNCHANGED <<err, ret>>
    /\ DeskFrame

\* fetch_yields, lines 226-239: one turn of the loop over missing
fetch_yields_country ==
    /\ pc = "pages"
    /\ op = "fetch_yields"
    /\ out.missing # <<>>
    /\ LET country == Head(out.missing)
       IN  IF country \notin COUNTRY_PAGE_SLUGS
           THEN out' = [out EXCEPT !.missing = Tail(@)]
           ELSE \E page \in CountryPages(country) :
                   out' = [out EXCEPT
                             !.missing = Tail(@),
                             !.requested = @ \cup {country},
                             !.result_frames =
                                 IF page.status # "ok" THEN @
                                 ELSE Append(@, FrameOf(page.countries \cap {country},
                                                        country))]
    /\ UNCHANGED <<pc, err, ret>>
    /\ DeskFrame

\* fetch_yields, lines 241-249
fetch_yields_return ==
    /\ pc = "pages"
    /\ op = "fetch_yields"
    /\ out.missing = <<>>
    /\ IF out.result_frames = <<>>
       THEN DeskRaise("RuntimeError")
       ELSE DeskReturn(SortByCountry(DropDuplicateQuotes(Concat(out.result_frames))))

\* ---- the inputs of the loader ----
FetchCalls ==
    [countries : {None} \cup {Some(S) : S \in SUBSET {"Germany", "France", "Atlantis"}},
     prefer_world : BOOLEAN]

\* Largest retries handed to _http_get.
MaxRetries == 3

\* The default of the argument backoff, 0.8 seconds.
DefaultBackoff == Rat(4, 5)

\* Mutant of Pow2: a linear backoff, i + 1.
Pow2_Linear(i) == i + 1

\* 2 ** i
RECURSIVE Pow2(_)
Pow2(i) == IF i = 0 THEN 1 ELSE 2 * Pow2(i - 1)

\* What sess.get / raise_for_status can do in one attempt: answer, or raise
\* one of the requests.RequestException classes.
GetOutcomes == {"ok", "Timeout", "HTTPError"}

\* The events of a call, in order: a GET (attempt i and its outcome) or a
\* sleep (after attempt i, for the given number of seconds).
Get(i, outcome) == [kind |-> "get", i |-> i, outcome |-> outcome]

Sleep(i, seconds) == [kind |-> "sleep", i |-> i, seconds |-> seconds]

\* The locals of _http_get: the loop index, last_err, and the events so far.
HttpFrame(i, last_err, events) == [i |-> i, last_err |-> last_err, events |-> events]

\* _http_get, line 69-70: before the loop
_http_get_enter ==
    /\ pc = "call"
    /\ op = "_http_get"
    /\ out' = HttpFrame(0, None, <<>>)
    /\ pc' = "attempt"
    /\ UNCHANGED <<err, ret>>
    /\ DeskFrame

\* _http_get, lines 71-81: one turn of the loop, the sleep included
_http_get_attempt ==
    /\ pc = "attempt"
    /\ op = "_http_get"
    /\ out.i < args.retries + 1
    /\ \E outcome \in GetOutcomes :
         LET i    == out.i
             seen == Append(out.events, Get(i, outcome))
             e    == [type |-> outcome, attempt |-> i]
         IN  IF outcome = "ok"
             THEN /\ pc' = "done"
                  /\ ret' = [text |-> i]
                  /\ out' = HttpFrame(i, out.last_err, seen)
                  /\ UNCHANGED err
             ELSE IF i < args.retries
             THEN /\ out' = HttpFrame(i + 1, Some(e),
                                      Append(seen, Sleep(i, RMul(args.backoff, RInt(Pow2(i))))))
                  /\ UNCHANGED <<pc, err, ret>>
             ELSE /\ pc' = "raised"
                  /\ err' = e
                  /\ out' = HttpFrame(i, Some(e), seen)
                  /\ UNCHANGED ret
    /\ DeskFrame

HttpCalls == [retries : 0..MaxRetries, backoff : {DefaultBackoff, RInt(0), RInt(2)}]

InitLoader ==
    /\ pc = "call"
    /\ err = ""
    /\ ret = <<>>
    /\ BootIdle
    /\ AlignIdle
    /\ out = <<>>
    /\ \/ op = "fetch_yields" /\ args \in FetchCalls
       \/ op = "_http_get" /\ args \in HttpCalls

NextLoader ==
    \/ fetch_yields_world
    \/ fetch_yields_country
    \/ fetch_yields_return
    \/ _http_get_enter
    \/ _http_get_attempt

SpecLoader == InitLoader /\ [][NextLoader]_vars

\* ------------------------------------------------------------------------
\* Claims on the loader (specification SpecLoader)
\* ------------------------------------------------------------------------
FetchEnded == op = "fetch_yields" /\ pc \in {"done", "raised"}

\* The countries whose page a complete fallback requests: the requested
\* countries that have a page, every country of DEFAULT_G10 without a filter.
FallbackCountries ==
    IF Wanted(args.countries) = None THEN COUNTRY_PAGE_SLUGS
    ELSE Wanted(args.countries)[1] \cap COUNTRY_PAGE_SLUGS

\* C22 as stated: when the world page cannot be fetched or parsed every
\* country page of the fallback is requested, with a country filter and
\* without one; RuntimeError is raised only when no page produced a table;
\* and the countries whose page produced rows are returned whatever
\* happened to the other pages.
C22_Original ==
    FetchEnded =>
        /\ out.world = "failed" => out.requested = FallbackCountries
        /\ pc = "raised" => (err = "RuntimeError" /\ out.result_frames = <<>>)
        /\ \A k \in 1..Len(out.result_frames) :
               \A j \in 1..Len(out.result_frames[k]) :
                   /\ pc = "done"
                   /\ \E n \in 1..Len(ret) :
                          ret[n].country = out.result_frames[k][j].country

\* ------------------------------------------------------------------------
\* The bond bootstrap on two curves, with yields quoted to 1e-12
\* (specification SpecSparse)
\* ------------------------------------------------------------------------
\* Here a par yield is a value q + e * 1e-12 like the discount factors, so
\* that a numerator can stand within 1e-9 of the guard.  Products and
\* quotients are taken to first order in 1e-12: the term dropped is of the
\* order of 1e-24, below the resolution of a float.
NMul(x, y) == Num(RMul(x.q, y.q), RAdd(RMul(x.q, y.e), RMul(x.e, y.q)))

\* x / y for y.q # 0
NQuot(x, y) ==
    Num(RDiv(x.q, y.q),
        RDiv(RSub(RMul(x.e, y.q), RMul(x.q, y.e)), RMul(y.q, y.q)))

\* Longest complete grid of the comparison.
MaxPeriods == 4

\* y = yield / 100; c = (y / freq) * 100
par_coupon(yield, f) == NDiv(yield, RInt(f))

\* Mutant of coupon_sum: the coupons are counted with the wrong sign.
coupon_sum_Negated(table, N, c) == NSub(NumOf(RInt(0)), NMul(c, SumDF(table, N)))

\* coupon_sum += c * DF[k] for k in range(1, N) if k in DF
coupon_sum(table, N, c) == NMul(c, SumDF(table, N))

\* numer <= 1e-9
GuardActs(table, N, c) ==
    NLeq(NSub(NumOf(RInt(ParPrice)), coupon_sum(table, N, c)), Tiny(GuardUnits))

\* DF_N of one point: the guard, numer / denom, the clamp.  With a yield > 0
\* denom = 100 + c is above 100.
DF_N(table, N, c) ==
    Clamp(IF GuardActs(table, N, c) THEN Tiny(FloorUnits)
          ELSE NQuot(NSub(NumOf(RInt(ParPrice)), coupon_sum(table, N, c)),
                     NAdd(NumOf(RInt(ParPrice)), c)))

\* The loop of bootstrap_zero_from_par from row i of the grid: the table DF
\* it ends with, and the periods at which the guard acted.
RECURSIVE bootstrap_pass(_, _, _, _, _)
bootstrap_pass(grid, f, i, table, guarded) ==
    IF i > Len(grid) THEN [DF |-> table, guarded |-> guarded]
    ELSE LET N == grid[i].N
             c == par_coupon(grid[i].rate, f)
         IN  bootstrap_pass(grid, f, i + 1, Store(table, N, DF_N(table, N, c)),
                            IF GuardActs(table, N, c) THEN guarded \cup {N} ELSE guarded)

\* bootstrap_zero_from_par on a curve without missing values: the period
\* grid (sort, N, N > 0, drop_duplicates) and the loop.
bootstrap_table(curve, f) ==
    bootstrap_pass(DropDuplicateN(SelectSeq(WithN(SortByYears(curve), f), HasPositiveN)),
                   f, 1, <<>>, {})

\* The two calls of a comparison: the curve with gaps, then the complete one.
bootstrap_sparse ==
    /\ pc = "call"
    /\ op = "bootstrap_zero_from_par"
    /\ out' = bootstrap_table(args.sparse, args.freq)
    /\ pc' = "second"
    /\ UNCHANGED <<err, ret>>
    /\ DeskFrame

bootstrap_complete ==
    /\ pc = "second"
    /\ op = "bootstrap_zero_from_par"
    /\ DeskReturn([sparse |-> out, complete |-> bootstrap_table(args.complete, args.freq)])

\* ---- the inputs of the comparison ----
\* Par yields in percent, all > 0: 100, 200, 400, and 400 - 4.4e-9, which
\* at freq 2 puts the numerator of a point behind a factor of 1/2 at 1.1e-9.
SparseYields ==
    {NumOf(RInt(100)), NumOf(RInt(200)), NumOf(RInt(400)), Num(RInt(400), RInt(-4400))}

\* A complete curve of L periods, and the same curve without some of its
\* points (the last one is kept, at least one is dropped).
CompleteCurve(ys, f) ==
    [k \in 1..Len(ys) |-> [years |-> k * (YearUnit \div f), rate |-> ys[k]]]

Keep(curve, K) ==
    SelectSeq(curve, LAMBDA r : \E k \in K \cap 1..Len(curve) : r = curve[k])

SparsePairs ==
    {[sparse |-> Keep(CompleteCurve(ys, f), K \cup {Len(ys)}),
      complete |-> CompleteCurve(ys, f), freq |-> f] :
        ys \in UNION {[1..L -> SparseYields] : L \in 2..MaxPeriods},
        K \in SUBSET (1..(MaxPeriods - 1)), f \in {1, 2}}

InitSparse ==
    /\ pc = "call"
    /\ err = ""
    /\ ret = <<>>
    /\ BootIdle
    /\ AlignIdle
    /\ out = <<>>
    /\ op = "bootstrap_zero_from_par"
    /\ args \in {x \in SparsePairs : Len(x.sparse) < Len(x.complete)}

NextSparse ==
    \/ bootstrap_sparse
    \/ bootstrap_complete

SpecSparse == InitSparse /\ [][NextSparse]_vars

\* ------------------------------------------------------------------------
\* Claims on the sparse grid (specification SpecSparse)
\* ------------------------------------------------------------------------
\* The longest maturity of the two curves, as a period index.
LastPeriod == Len(args.complete)

Compared == op = "bootstrap_zero_from_par" /\ pc = "done"

\* C25 as stated: with par yields > 0, the discount factor at the longest
\* maturity of the curve with gaps is greater than or equal to the one of
\* any complete curve with the same yields at the shared maturities (the
\* zero yield -ln(DF)/t or DF^(-1/t) - 1 decreases with DF, so it is lower
\* or equal).
C25_Original ==
    Compared => NLeq(ret.complete.DF[LastPeriod], ret.sparse.DF[LastPeriod])

\* C25 amended: the same, for the pairs of curves where the numerator guard
\* (numer <= 1e-9) acts at no point of either bootstrap.
C25_Amended ==
    (Compared /\ ret.sparse.guarded = {} /\ ret.complete.guarded = {}) =>
        NLeq(ret.complete.DF[LastPeriod], ret.sparse.DF[LastPeriod])

\* C25 witness: a four-period comparison without a guarded point where the
\* curve with gaps keeps two points and has the strictly greater factor.
C25_Witness ==
    /\ Compared
    /\ LastPeriod = 4
    /\ Len(args.sparse) = 2
    /\ ret.sparse.guarded = {}
    /\ ret.complete.guarded = {}
    /\ NLt(ret.complete.DF[4], ret.sparse.DF[4])

\* ------------------------------------------------------------------------
\* Claims on hedging, continued (specification SpecDesk)
\* ------------------------------------------------------------------------
\* A finished call of liquidity_score with a bid/ask width, and what the
\* width adds to the score: the score less the score of the same call
\* without a width (the terms sum to 1.0 at most, the final cap never cuts).
ScoredWithWidth ==
    op = "liquidity_score" /\ pc = "done" /\ args.bid_ask_bp # None

BidAskTerm ==
    RSub(ret, liquidity_score(args.is_on_the_run, None, args.est_daily_volume_mm))

\* C26 as stated: the bid/ask term is about 0.3 at 0.5bp and about 0.075 at
\* 2bp (within 0.01), and a quote 1bp wide scores strictly higher than one
\* 2bp wide with the other inputs equal.
C26_Original ==
    ScoredWithWidth =>
        /\ args.bid_ask_bp = Some(Rat(1, 2)) => Within(BidAskTerm, Rat(3, 10), Rat(1, 100))
        /\ args.bid_ask_bp = Some(RInt(2)) =>
              /\ Within(BidAskTerm, Rat(75, 1000), Rat(1, 100))
              /\ RLt(ret, liquidity_score(args.is_on_the_run, Some(RInt(1)),
                                          args.est_daily_volume_mm))

\* ------------------------------------------------------------------------
\* Claims on the loader, continued (specification SpecLoader)
\* ------------------------------------------------------------------------
\* The events of a call of _http_get, and the GET attempts among them.
HttpEvents == IF op = "_http_get" /\ out # <<>> THEN out.events ELSE <<>>

Attempts == SelectSeq(HttpEvents, LAMBDA ev : ev.kind = "get")

\* C27: for retries >= 0, _http_get makes at most retries + 1 attempts,
\* numbered 0, 1, ...; it attempts nothing after a success and returns the
\* body of that attempt; it sleeps backoff * 2^i right after a failed
\* attempt i that is not the last one allowed, and at no other time; and
\* when all retries + 1 attempts fail it raises the exception of the last.
C27_BoundedRetries ==
    op = "_http_get" =>
        /\ Len(Attempts) <= args.retries + 1
        /\ \A n \in 1..Len(Attempts) : Attempts[n].i = n - 1
        /\ \A n \in 1..Len(HttpEvents) :
              LET ev == HttpEvents[n]
              IN  /\ (ev.kind = "get" /\ ev.outcome = "ok") =>
                        /\ n = Len(HttpEvents)
                        /\ pc = "done"
                        /\ ret = [text |-> ev.i]
                  /\ (ev.kind = "get" /\ ev.outcome # "ok" /\ ev.i < args.retries) =>
                        /\ n < Len(HttpEvents)
                        /\ HttpEvents[n + 1] =
                               Sleep(ev.i, RMul(args.backoff, RInt(2 ^ ev.i)))
                  /\ (ev.kind = "get" /\ ev.outcome # "ok" /\ ev.i = args.retries) =>
                        /\ n = Len(HttpEvents)
                        /\ pc = "raised"
                        /\ err = [type |-> ev.outcome, attempt |-> ev.i]
                  /\ ev.kind = "sleep" =>
                        /\ n > 1
                        /\ HttpEvents[n - 1].kind = "get"
                        /\ HttpEvents[n - 1].outcome # "ok"
                        /\ HttpEvents[n - 1].i = ev.i
        /\ pc = "done" =>
              (HttpEvents # <<>> /\ HttpEvents[Len(HttpEvents)].outcome = "ok")
        /\ pc = "raised" =>
              /\ Len(Attempts) = args.retries + 1
              /\ \A n \in 1..Len(Attempts) : Attempts[n].outcome # "ok"

\* C27 witness: a call with retries = 3 and the default backoff that
\* succeeds at its fourth attempt, after sleeps of 0.8, 1.6 and 3.2 seconds.
C27_Witness ==
    /\ op = "_http_get"
    /\ pc = "done"
    /\ args.retries = 3
    /\ ret = [text |-> 3]
    /\ Len(HttpEvents) = 7
    /\ HttpEvents[2] = Sleep(0, Rat(4, 5))
    /\ HttpEvents[4] = Sleep(1, Rat(8, 5))
    /\ HttpEvents[6] = Sleep(2, Rat(16, 5))

\* ------------------------------------------------------------------------
\* Claims on the bootstrap: the sign of the zero yields (specification
\* SpecBoot)
\* ------------------------------------------------------------------------
\* rows[i] is the row emitted for the grid point d[i].
EmittedRows == IF pc \in {"loop", "done"} THEN 1..Len(rows) ELSE {}

\* C28 as stated: no emitted zero yield is negative, and a negative par
\* rate gives a zero yield of 0, in both variants and compounding modes.
C28_Original ==
    \A i \in EmittedRows :
        /\ ZeroYieldSign(rows[i].zero) >= 0
        /\ d[i].rate.n < 0 => ZeroYieldSign(rows[i].zero) = 0

\* C28 amended: no emitted zero yield is negative, and a negative par rate
\* above -100 * freq percent gives a zero yield of 0 (below that the
\* denominator is negative and the factor is stored at the floor 1e-12).
C28_Amended ==
    \A i \in EmittedRows :
        /\ ZeroYieldSign(rows[i].zero) >= 0
        /\ (d[i].rate.n < 0 /\ RLt(RInt(-100 * freq), d[i].rate)) =>
               ZeroYieldSign(rows[i].zero) = 0

\* C28 witness: a returned curve whose first point has a positive rate and
\* a positive zero yield and whose second point has a rate of -50% and a
\* zero yield of 0.
C28_Witness ==
    /\ pc = "done"
    /\ Len(rows) >= 2
    /\ d[1].rate.n > 0
    /\ ZeroYieldSign(rows[1].zero) = 1
    /\ d[2].rate = RInt(-50)
    /\ ZeroYieldSign(rows[2].zero) = 0

\* ------------------------------------------------------------------------
\* Claims on the alignment, continued (specification SpecAlign)
\* ------------------------------------------------------------------------
\* add_spread_vs_ref_par or swap_spread_vs_ref returned after one of its
\* two tiers.
TwoTierDone ==
    /\ pc = "done"
    /\ fn \in {"add_spread_vs_ref_par", "swap_spread_vs_ref"}
    /\ tier \in {"exact", "nearest"}

\* C29: with a tolerance >= 0, every target row that the exact join matches
\* is in the result of the fallback with the same reference rate and the
\* same spread; and the result of either tier has at most one row per
\* target maturity, in ascending order of years.
C29_FallbackKeepsExactMatches ==
    (TwoTierDone /\ tol >= 0) =>
        /\ tier = "nearest" =>
              \A k \in 1..Len(ExactJoin(a, b)) :
                  /\ \E i \in 1..Len(m) : m[i] = ExactJoin(a, b)[k]
                  /\ \E i \in 1..Len(ret) :
                        /\ ret[i].years = ExactJoin(a, b)[k].years
                        /\ ret[i].spread_bp = ExactJoin(a, b)[k].spread_bp
        /\ \A i \in 2..Len(ret) : ret[i - 1].years < ret[i].years
        /\ YearsOf(ret) \subseteq YearsOf(a)

\* C29 witness: the fallback ran although one target maturity has an exact
\* match, and returned that row next to a row aligned with a neighbour.
C29_Witness ==
    /\ TwoTierDone
    /\ tier = "nearest"
    /\ Len(ExactJoin(a, b)) = 1
    /\ Len(ret) >= 2
    /\ \E i \in 1..Len(m) : m[i].years \notin YearsOf(b)

\* ------------------------------------------------------------------------
\* The dashboard controls (Cash-Bond-Dash.py): the instrument selector, the
\* spread-mode dropdown, the curve-type selector and the two callbacks that
\* the instrument triggers (specification SpecDash)
\* ------------------------------------------------------------------------
\* Instrument switches of one run.
MaxSwitches == 4

\* The layout: dcc.RadioItems "instrument", dcc.Dropdown "spread-mode",
\* dcc.RadioItems "curve-type" (the labels of the options are left out).
Instruments == {"bonds", "swaps"}

CurveTypes == {"par", "zero"}

Layout ==
    [instrument |-> "bonds",
     options |-> <<"gov_bund", "asw", "irs_vs_eur">>,
     value |-> "gov_bund",
     curve_type |-> "par",
     pending |-> {"sync_spread_options"},
     switches |-> 0]

Values(opts) == {opts[i] : i \in 1..Len(opts)}

\* Mutant of sync_spread_options: the current value is returned as it is.
sync_spread_options_KeepCurrent(instrument, current) ==
    [options |-> IF instrument = "bonds" THEN <<"gov_bund", "asw">>
                 ELSE <<"irs_vs_eur", "asw">>,
     value |-> current]

\* sync_spread_options(instrument, current): (opts, default)
sync_spread_options(instrument, current) ==
    IF instrument = "bonds"
    THEN [options |-> <<"gov_bund", "asw">>,
          value |-> IF current \notin {"gov_bund", "asw"} THEN "gov_bund" ELSE current]
    ELSE [options |-> <<"irs_vs_eur", "asw">>,
          value |-> IF current \notin {"irs_vs_eur", "asw"} THEN "irs_vs_eur" ELSE current]

\* reset_curve_when_bonds(instrument, current)
reset_curve_when_bonds(instrument, current) ==
    IF instrument = "bonds" THEN "par" ELSE current

DashFrame ==
    /\ UNCHANGED <<bootVars, alignVars>>
    /\ UNCHANGED <<pc, err, op>>

\* The user picks the other instrument: both callbacks are due.
select_instrument ==
    /\ op = "dash"
    /\ out.switches < MaxSwitches
    /\ \E v \in Instruments \ {out.instrument} :
          out' = [out EXCEPT !.instrument = v,
                             !.pending = {"sync_spread_options", "reset_curve_when_bonds"},
                             !.switches = @ + 1]
    /\ UNCHANGED <<args, ret>>
    /\ DashFrame

\* The user picks another of the offered spread modes.
select_spread_mode ==
    /\ op = "dash"
    /\ \E v \in Values(out.options) \ {out.value} : out' = [out EXCEPT !.value = v]
    /\ UNCHANGED <<args, ret>>
    /\ DashFrame

\* The user picks the other curve type.
select_curve_type ==
    /\ op = "dash"
    /\ \E v \in CurveTypes \ {out.curve_type} : out' = [out EXCEPT !.curve_type = v]
    /\ UNCHANGED <<args, ret>>
    /\ DashFrame

\* The callback sync_spread_options runs (at page load and after a switch):
\* args and ret keep its arguments and what it returned.
sync_spread_options_callback ==
    /\ op = "dash"
    /\ "sync_spread_options" \in out.pending
    /\ args' = [instrument |-> out.instrument, current |-> out.value]
    /\ ret' = sync_spread_options(out.instrument, out.value)
    /\ out' = [out EXCEPT !.options = ret'.options,
                          !.value = ret'.value,
                          !.pending = @ \ {"sync_spread_options"}]
    /\ DashFrame

\* The callback reset_curve_when_bonds runs (after a switch only).
reset_curve_when_bonds_callback ==
    /\ op = "dash"
    /\ "reset_curve_when_bonds" \in out.pending
    /\ out' = [out EXCEPT !.curve_type = reset_curve_when_bonds(out.instrument, @),
                          !.pending = @ \ {"reset_curve_when_bonds"}]
    /\ UNCHANGED <<args, ret>>
    /\ DashFrame

InitDash ==
    /\ pc = "serving"
    /\ err = ""
    /\ ret = <<>>
    /\ BootIdle
    /\ AlignIdle
    /\ op = "dash"
    /\ args = <<>>
    /\ out = Layout

NextDash ==
    \/ select_instrument
    \/ select_spread_mode
    \/ select_curve_type
    \/ sync_spread_options_callback
    \/ reset_curve_when_bonds_callback

SpecDash == InitDash /\ [][NextDash]_vars

\* ------------------------------------------------------------------------
\* Claims on the dashboard controls (specification SpecDash)
\* ------------------------------------------------------------------------
\* sync_spread_options has run at least once.
Synced == op = "dash" /\ ret # <<>>

\* The spread modes of an instrument and its default.
Offered(instrument) ==
    IF instrument = "bonds" THEN {"gov_bund", "asw"} ELSE {"irs_vs_eur", "asw"}

DefaultMode(instrument) == IF instrument = "bonds" THEN "gov_bund" ELSE "irs_vs_eur"

\* C30: whatever the switches before it, the value sync_spread_options
\* returns is one of the options it returns, which are those of the
\* instrument it is called for: the current value when that is offered for
\* the instrument, the default of the instrument otherwise; and once the
\* callback has handled the last switch the dropdown holds an offered value.
C30_ValueAmongOptions ==
    Synced =>
        /\ Values(ret.options) = Offered(args.instrument)
        /\ ret.value \in Values(ret.options)
        /\ args.current \in Offered(args.instrument) => ret.value = args.current
        /\ args.current \notin Offered(args.instrument) =>
               ret.value = DefaultMode(args.instrument)
        /\ "sync_spread_options" \notin out.pending =>
               /\ Values(out.options) = Offered(out.instrument)
               /\ out.value \in Values(out.options)

\* C30 witness: after three switches the callback was called for swaps with
\* "gov_bund" selected and returned "irs_vs_eur".
C30_Witness ==
    /\ Synced
    /\ out.switches = 3
    /\ out.pending = {}
    /\ args = [instrument |-> "swaps", current |-> "gov_bund"]
    /\ ret.value = "irs_vs_eur"
====
